---- MODULE Spec2Model ----
(***************************************************************************)
(* liblpm Python binding: the LpmTableIPv4 / LpmTableIPv6 wrapper classes  *)
(* of bindings/python/src/liblpm/table.py over the longest-prefix-match    *)
(* engine they call through self._trie.                                    *)
(*                                                                         *)
(* The wrapper is translated from table.py.  The engine behind self._trie  *)
(* (the _liblpm extension and the C library) is not part of the source     *)
(* tree; it is modelled from sections 3, 4 and 6 of the specification.     *)
(*                                                                         *)
(* Scale.  The engine's 8-bit stride is StrideBits bits here, an IPv4      *)
(* address is Levels4 strides wide and an IPv6 address Levels6 strides, so *)
(* that the node arrays can be enumerated.  The layouts keep their shape:  *)
(* DIR-24-8 is a direct table over all strides but the last plus one       *)
(* extension block per direct slot, Wide16 is a root over the first two    *)
(* strides plus a stride trie under each root slot, Stride8 is one node    *)
(* array per stride.                                                       *)
(***************************************************************************)
EXTENDS Integers, Sequences, FiniteSets, TLC

VARIABLES
    tab,    \* the table under test: NoTable before construction, else a table record
    peer,   \* a second table driven by the same inserts and deletes (pair runs only)
    cyc,    \* bookkeeping of insert/delete cycles (cycle runs only)
    blk,    \* position of the program in a with-block (with-block runs only)
    thr     \* the threads sharing the table and their lock (threaded runs only)

vars == <<tab, peer, cyc, blk, thr>>

(***************************************************************************)
(* A method of the wrapper is an operator from the table and the arguments *)
(* to [tab |-> the table after the call, ret |-> what the caller sees]:    *)
(* the exception raised or the value returned, and the engine method the   *)
(* call reached.  The actions apply the methods to the table; what a call  *)
(* returns is not state of the program.                                    *)
(***************************************************************************)

----------------------------------------------------------------------------
(* Constants of the program *)

\* width of a next-hop (32 in the program; TLC's integers end at 2^31 - 1)
NextHopBits == 16

\* largest value of the next-hop type: the 0xFFFFFFFF of insert's range check
UINT_MAX == 2^NextHopBits - 1

\* __init__.py: INVALID_NEXT_HOP = 0xFFFFFFFF
INVALID_NEXT_HOP == UINT_MAX

\* Python's None, as returned by lookup on a miss; no next-hop is negative
None == -1

----------------------------------------------------------------------------
(* Scale of the engine and bounds of the exploration *)

\* bits consumed per trie level (8 in the engine)
StrideBits == 2
\* strides in an IPv4 address (4 in the engine)
Levels4 == 2
\* strides in an IPv6 address (16 in the engine)
Levels6 == 3
\* a slot that holds no leaf carries this prefix-length tag
NoTag == -1

\* at most this many prefixes are stored at a time
MaxPrefixes == 2
\* legal next-hops explored are 0..MaxNextHop (and the reserved value)
MaxNextHop == 1
\* longest address sequence handed to lookup_batch
MaxBatch == 2
\* insert/delete cycles followed in a cycle run
MaxCycles == 3

Families == {"IPv4", "IPv6"}

AddrBits(family) ==
    IF family = "IPv4" THEN Levels4 * StrideBits ELSE Levels6 * StrideBits

Addresses(family) == 0 .. (2^AddrBits(family) - 1)

\* the network address of addr/len: the bits beyond len cleared
Mask(addr, len, w) == (addr \div 2^(w - len)) * 2^(w - len)

----------------------------------------------------------------------------
(* Engine: geometry of the three layouts (spec 4.1, 4.2, 4.3)              *)

\* strides covered by the flat first-level array: the Stride8 root node (one
\* stride), the Wide16 root (two strides, 16 bits), the DIR-24-8 direct table
\* (all strides but the last, 24 bits)
TopLevels(algo, w) ==
    CASE algo = "stride8" -> 1
      [] algo = "wide16"  -> 2
      [] algo = "dir24"   -> (w \div StrideBits) - 1

TopBits(algo, w) == TopLevels(algo, w) * StrideBits

\* index of addr in the first-level array
TopIdx(addr, algo, w) == addr \div 2^(w - TopBits(algo, w))

\* the level (in strides) of the node array in which a prefix of length len ends
NodeLevel(len) == IF len = 0 THEN 0 ELSE (len - 1) \div StrideBits

\* a node array below the first level is named by its level and the address
\* bits that lead to it
NodeKey(addr, k, w) == <<k, addr \div 2^(w - k * StrideBits)>>

\* index of addr in the node array of level k
SlotIdx(addr, k, w) == (addr \div 2^(w - (k + 1) * StrideBits)) % 2^StrideBits

EmptySlot == [nh |-> INVALID_NEXT_HOP, tag |-> NoTag, child |-> FALSE]

EmptyArray(bits) == [i \in 0 .. (2^bits - 1) |-> EmptySlot]

\* TRUE when prefix <<net, len>> ends in the first-level array
InTop(len, algo, w) == len <= TopBits(algo, w)

\* slots of the first-level array a prefix of length len <= TopBits fans out over
TopRange(net, len, algo, w) ==
    LET first == TopIdx(net, algo, w)
    IN  first .. (first + 2^(TopBits(algo, w) - len) - 1)

\* slots of its terminal node array a prefix of length len > TopBits fans out over
NodeRange(net, len, w) ==
    LET k     == NodeLevel(len)
        first == SlotIdx(net, k, w)
    IN  first .. (first + 2^((k + 1) * StrideBits - len) - 1)

\* node arrays on the way to the terminal node of <<net, len>>, len > TopBits
PathKeys(net, len, algo, w) ==
    {NodeKey(net, k, w) : k \in TopLevels(algo, w) .. NodeLevel(len)}

\* the engine behind a fresh handle: _LpmTrieIPv4(algo) / _LpmTrieIPv6(algo)
trie_new(algo, w) ==
    [algo     |-> algo,
     w        |-> w,
     stored   |-> <<>>,
     top      |-> EmptyArray(TopBits(algo, w)),
     nodes    |-> <<>>,
     released |-> FALSE]

----------------------------------------------------------------------------
(* Engine: fan-out on insert, longest wins (spec 4.1 insert, 4.2, 4.3)     *)

\* a fan-out that writes every slot of the range, whatever its tag
FanOut_overwriting(arr, rng, nh, len) ==
    [i \in DOMAIN arr |->
        IF i \in rng
        THEN [arr[i] EXCEPT !.nh = nh, !.tag = len]
        ELSE arr[i]]

\* write next-hop nh with tag len into the slots of rng whose tag is absent
\* or not longer than len; child references are kept
FanOut(arr, rng, nh, len) ==
    [i \in DOMAIN arr |->
        IF i \in rng /\ arr[i].tag <= len
        THEN [arr[i] EXCEPT !.nh = nh, !.tag = len]
        ELSE arr[i]]

\* a freshly allocated node array that is empty in every layout
NewNode_empty(t, key) == EmptyArray(StrideBits)

\* a freshly allocated node array: empty, except that a DIR-24-8 extension
\* block starts from the value of the direct slot it replaces
NewNode(t, key) ==
    IF t.algo = "dir24"
    THEN [i \in 0 .. (2^StrideBits - 1) |->
            [nh |-> t.top[key[2]].nh, tag |-> t.top[key[2]].tag, child |-> FALSE]]
    ELSE EmptyArray(StrideBits)

\* an insert into the first-level array that leaves the node arrays alone
AddTop_direct(t, net, len, nh) ==
    [t EXCEPT
      !.top    = FanOut(t.top, TopRange(net, len, t.algo, t.w), nh, len),
      !.stored = [p \in DOMAIN t.stored \cup {<<net, len>>} |->
                    IF p = <<net, len>> THEN nh ELSE t.stored[p]]]

\* insert of a prefix that ends in the first-level array
AddTop(t, net, len, nh) ==
    LET rng == TopRange(net, len, t.algo, t.w)
    IN  [t EXCEPT
          !.top    = FanOut(t.top, rng, nh, len),
          \* DIR-24-8: the blocks under the covered direct slots inherit the value
          !.nodes  = [key \in DOMAIN t.nodes |->
                        IF t.algo = "dir24" /\ key[2] \in rng
                        THEN FanOut(t.nodes[key], DOMAIN t.nodes[key], nh, len)
                        ELSE t.nodes[key]],
          !.stored = [p \in DOMAIN t.stored \cup {<<net, len>>} |->
                        IF p = <<net, len>> THEN nh ELSE t.stored[p]]]

\* insert of a prefix that ends below the first level: the node arrays on the
\* way are allocated lazily and linked from their parents
AddNode(t, net, len, nh) ==
    LET path == PathKeys(net, len, t.algo, t.w)
        last == NodeKey(net, NodeLevel(len), t.w)
        linked(key, arr) ==
            IF key \in path /\ key # last
            THEN [arr EXCEPT ![SlotIdx(net, key[1], t.w)].child = TRUE]
            ELSE arr
        base(key) == IF key \in DOMAIN t.nodes THEN t.nodes[key] ELSE NewNode(t, key)
    IN  [t EXCEPT
          !.top    = [t.top EXCEPT ![TopIdx(net, t.algo, t.w)].child = TRUE],
          !.nodes  = [key \in DOMAIN t.nodes \cup path |->
                        IF key = last
                        THEN FanOut(base(key), NodeRange(net, len, t.w), nh, len)
                        ELSE linked(key, base(key))],
          !.stored = [p \in DOMAIN t.stored \cup {<<net, len>>} |->
                        IF p = <<net, len>> THEN nh ELSE t.stored[p]]]

\* _trie.add(prefix_bytes, prefix_len, next_hop): 0 on success, non-zero when a
\* node array it needs cannot be allocated (mem = FALSE); a failed insert
\* leaves the engine as it was
trie_add(t, net, len, nh, mem) ==
    IF InTop(len, t.algo, t.w)
    THEN [rc |-> 0, trie |-> AddTop(t, net, len, nh)]
    ELSE IF ~mem /\ PathKeys(net, len, t.algo, t.w) \ DOMAIN t.nodes # {}
    THEN [rc |-> -1, trie |-> t]
    ELSE [rc |-> 0, trie |-> AddNode(t, net, len, nh)]

----------------------------------------------------------------------------
(* Engine: delete with shadow restore (spec 4.1 delete, 4.2, 4.3)          *)

\* the longest of a non-empty set of prefixes
Longest(ps) == CHOOSE p \in ps : \A q \in ps : q[2] <= p[2]

\* leaf value and tag a first-level slot falls back to: those of the longest
\* prefix of `stored` that fans out over it, or empty
ShadowTop(stored, i, algo, w) ==
    LET over == {p \in DOMAIN stored :
                    InTop(p[2], algo, w) /\ i \in TopRange(p[1], p[2], algo, w)}
    IN  IF over = {}
        THEN [nh |-> INVALID_NEXT_HOP, tag |-> NoTag]
        ELSE [nh |-> stored[Longest(over)], tag |-> Longest(over)[2]]

\* leaf value and tag a node slot falls back to: those of the longest prefix
\* of `stored` that ends in this node and fans out over the slot; failing
\* that, a DIR-24-8 extension slot takes the value of its direct slot
ShadowNode(stored, key, i, algo, w) ==
    LET over == {p \in DOMAIN stored :
                    /\ ~InTop(p[2], algo, w)
                    /\ NodeKey(p[1], NodeLevel(p[2]), w) = key
                    /\ i \in NodeRange(p[1], p[2], w)}
    IN  IF over # {}
        THEN [nh |-> stored[Longest(over)], tag |-> Longest(over)[2]]
        ELSE IF algo = "dir24"
        THEN ShadowTop(stored, key[2], algo, w)
        ELSE [nh |-> INVALID_NEXT_HOP, tag |-> NoTag]

\* a clearing that empties the slots tagged len and restores nothing
Restore_emptying(arr, rng, len, shadow) ==
    [i \in DOMAIN arr |->
        IF i \in rng /\ arr[i].tag = len
        THEN [arr[i] EXCEPT !.nh = INVALID_NEXT_HOP, !.tag = NoTag]
        ELSE arr[i]]

\* clear the slots of rng tagged len and let each fall back to shadow[i]
Restore(arr, rng, len, shadow) ==
    [i \in DOMAIN arr |->
        IF i \in rng /\ arr[i].tag = len
        THEN [arr[i] EXCEPT !.nh = shadow[i].nh, !.tag = shadow[i].tag]
        ELSE arr[i]]

\* delete of a stored prefix that ends in the first-level array
DelTop(t, net, len) ==
    LET rest == [p \in DOMAIN t.stored \ {<<net, len>>} |-> t.stored[p]]
        rng  == TopRange(net, len, t.algo, t.w)
        topShadow == [i \in DOMAIN t.top |-> ShadowTop(rest, i, t.algo, t.w)]
    IN  [t EXCEPT
          !.top    = Restore(t.top, rng, len, topShadow),
          !.nodes  = [key \in DOMAIN t.nodes |->
                        IF t.algo = "dir24" /\ key[2] \in rng
                        THEN LET inherited == [i \in DOMAIN t.nodes[key] |->
                                                  topShadow[key[2]]]
                             IN  Restore(t.nodes[key], DOMAIN t.nodes[key], len, inherited)
                        ELSE t.nodes[key]],
          !.stored = rest]

\* delete of a stored prefix that ends below the first level; the last such
\* prefix under a DIR-24-8 direct slot takes the extension block with it
DelNode(t, net, len) ==
    LET rest == [p \in DOMAIN t.stored \ {<<net, len>>} |-> t.stored[p]]
        key  == NodeKey(net, NodeLevel(len), t.w)
        nodeShadow == [i \in DOMAIN t.nodes[key] |->
                          ShadowNode(rest, key, i, t.algo, t.w)]
        cleared == Restore(t.nodes[key], NodeRange(net, len, t.w), len, nodeShadow)
        lastOne == /\ t.algo = "dir24"
                   /\ ~\E p \in DOMAIN rest :
                          /\ ~InTop(p[2], t.algo, t.w)
                          /\ TopIdx(p[1], t.algo, t.w) = key[2]
    IN  IF lastOne
        THEN [t EXCEPT
               !.top    = [t.top EXCEPT ![key[2]].child = FALSE],
               !.nodes  = [k \in DOMAIN t.nodes \ {key} |-> t.nodes[k]],
               !.stored = rest]
        ELSE [t EXCEPT
               !.nodes  = [t.nodes EXCEPT ![key] = cleared],
               !.stored = rest]

\* _trie.delete(prefix_bytes, prefix_len): 0 on success, non-zero when the
\* exact prefix is not stored
trie_delete(t, net, len) ==
    IF <<net, len>> \notin DOMAIN t.stored
    THEN [rc |-> -1, trie |-> t]
    ELSE IF InTop(len, t.algo, t.w)
    THEN [rc |-> 0, trie |-> DelTop(t, net, len)]
    ELSE [rc |-> 0, trie |-> DelNode(t, net, len)]

----------------------------------------------------------------------------
(* Engine: lookup (spec 4.1 lookup, 4.2 lookup, 4.3 lookup)                *)

\* remember-best-and-keep-descending through the node arrays from level k
RECURSIVE Descend(_, _, _, _)
Descend(t, addr, k, best) ==
    LET slot == t.nodes[NodeKey(addr, k, t.w)][SlotIdx(addr, k, t.w)]
        seen == IF slot.tag # NoTag THEN slot.nh ELSE best
    IN  IF slot.child THEN Descend(t, addr, k + 1, seen) ELSE seen

\* Stride8 and Wide16: the first-level slot gives the initial best match
DescendLookup(t, addr) ==
    LET slot == t.top[TopIdx(addr, t.algo, t.w)]
        best == IF slot.tag # NoTag THEN slot.nh ELSE INVALID_NEXT_HOP
    IN  IF slot.child
        THEN Descend(t, addr, TopLevels(t.algo, t.w), best)
        ELSE best

\* DIR-24-8: the direct slot's value, or the extension slot's if it is a pointer
Dir24Lookup(t, addr) ==
    LET slot == t.top[TopIdx(addr, t.algo, t.w)]
        k    == TopLevels(t.algo, t.w)
    IN  IF slot.child
        THEN t.nodes[NodeKey(addr, k, t.w)][SlotIdx(addr, k, t.w)].nh
        ELSE slot.nh

\* _trie.lookup(addr): next-hop of the most specific covering prefix, or the
\* sentinel
trie_lookup(t, addr) ==
    IF t.algo = "dir24" THEN Dir24Lookup(t, addr) ELSE DescendLookup(t, addr)

\* _trie.lookup_batch(addrs, results): one lookup per address, in order
trie_lookup_batch(t, addrs) ==
    [i \in 1 .. Len(addrs) |-> trie_lookup(t, addrs[i])]

\* a close that releases the first-level array and leaves the node arrays
trie_close_shallow(t) ==
    [t EXCEPT !.stored = <<>>, !.top = <<>>, !.released = TRUE]

\* _trie.close(): every node array is released
trie_close(t) ==
    [t EXCEPT !.stored = <<>>, !.top = <<>>, !.nodes = <<>>, !.released = TRUE]

\* _trie.num_prefixes, _trie.num_nodes, _trie.num_wide_nodes
trie_num_prefixes(t) == Cardinality(DOMAIN t.stored)

trie_num_nodes(t) ==
    IF t.algo = "stride8"
    THEN 1 + Cardinality(DOMAIN t.nodes)
    ELSE Cardinality(DOMAIN t.nodes)

trie_num_wide_nodes(t) == IF t.algo = "wide16" THEN 1 ELSE 0

----------------------------------------------------------------------------
(* Wrapper: conversions done with the ipaddress module                     *)

\* addr.packed: the address as bytes, most significant first (a byte is one
\* stride here)
packed(addr, w) ==
    [i \in 1 .. (w \div StrideBits) |->
        (addr \div 2^(w - i * StrideBits)) % 2^StrideBits]

\* int.from_bytes(b, 'little'): the first byte is the least significant
RECURSIVE from_bytes_little(_)
from_bytes_little(b) ==
    IF Len(b) = 0
    THEN 0
    ELSE from_bytes_little(SubSeq(b, 2, Len(b))) * 2^StrideBits + b[1]

\* int.from_bytes(b, 'big')
RECURSIVE from_bytes_big(_)
from_bytes_big(b) ==
    IF Len(b) = 0
    THEN 0
    ELSE from_bytes_big(SubSeq(b, 1, Len(b) - 1)) * 2^StrideBits + b[Len(b)]

\* a parse that keeps the address as typed, host bits included
ParseNetwork_unmasked(prefix, family) ==
    IF prefix.kind = "badstr" \/ prefix.len > AddrBits(family)
    THEN [ok |-> FALSE, net |-> 0, len |-> 0]
    ELSE [ok |-> TRUE, net |-> prefix.addr, len |-> prefix.len]

\* the parse with strict=True: a text with host bits set raises ValueError
ParseNetwork_strict(prefix, family) ==
    IF \/ prefix.kind = "badstr"
       \/ prefix.len > AddrBits(family)
       \/ Mask(prefix.addr, prefix.len, AddrBits(family)) # prefix.addr
    THEN [ok |-> FALSE, net |-> 0, len |-> 0]
    ELSE [ok |-> TRUE, net |-> prefix.addr, len |-> prefix.len]

\* IPv4Network(text, strict=False) / IPv6Network(text, strict=False): a text
\* that does not parse or whose length exceeds the family's raises ValueError;
\* otherwise the host bits are masked off
ParseNetwork(prefix, family) ==
    IF prefix.kind = "badstr" \/ prefix.len > AddrBits(family)
    THEN [ok |-> FALSE, net |-> 0, len |-> 0]
    ELSE [ok  |-> TRUE,
          net |-> Mask(prefix.addr, prefix.len, AddrBits(family)),
          len |-> prefix.len]

\* IPv4Address(text) / IPv6Address(text)
ParseAddress(addr) == [ok |-> addr.kind # "badstr", a |-> addr.a]

----------------------------------------------------------------------------
(* Wrapper: LpmTableIPv4 and LpmTableIPv6 (table.py)                       *)

NoTable == [exists |-> FALSE]

\* outcome of a call: the exception raised ("none" if it returned), the value
\* returned, the list returned by lookup_batch, and the engine method reached
Ret(op, exc, val, vals, engine) ==
    [op |-> op, exc |-> exc, val |-> val, vals |-> vals, engine |-> engine]

Raise(t, op, exc) == [tab |-> t, ret |-> Ret(op, exc, None, <<>>, "none")]

\* a constructor that takes every algorithm name for every family
AnyAlgorithm(family) == {"dir24", "stride8", "wide16"}

\* LpmTableIPv4.__init__ accepts 'dir24' and 'stride8', LpmTableIPv6.__init__
\* 'wide16' and 'stride8'
ValidAlgorithms(family) ==
    IF family = "IPv4" THEN {"dir24", "stride8"} ELSE {"wide16", "stride8"}

\* value of a member of the Algorithm enum
AlgorithmValue(name) ==
    CASE name = "DIR24"   -> "dir24"
      [] name = "WIDE16"  -> "wide16"
      [] name = "STRIDE8" -> "stride8"

\* __init__: algorithm.value for a member of Algorithm, str(algorithm) else
AsAlgoStr(algorithm) ==
    IF algorithm.kind = "enum" THEN AlgorithmValue(algorithm.name) ELSE algorithm.text

\* __init__(algorithm)
init(family, algo_str) ==
    IF algo_str \notin ValidAlgorithms(family)
    THEN Raise(NoTable, "__init__", "ValueError")
    ELSE [tab |-> [exists   |-> TRUE,
                   family   |-> family,
                   trie     |-> trie_new(algo_str, AddrBits(family)),
                   closed   |-> FALSE,
                   releases |-> 0,
                   deleted  |-> FALSE],
          ret |-> Ret("__init__", "none", None, <<>>, "new")]

\* the prefix argument as an IPv4Network / IPv6Network, or not ok
AsNetwork(t, prefix) ==
    IF prefix.kind \in {"str", "badstr"}
    THEN ParseNetwork(prefix, t.family)
    ELSE IF prefix.kind = "net" /\ prefix.family = t.family
    THEN [ok |-> TRUE, net |-> prefix.addr, len |-> prefix.len]
    ELSE [ok |-> FALSE, net |-> 0, len |-> 0]

\* insert that hands the engine the address as typed, host bits included
insert_as_typed(t, prefix, next_hop, mem) ==
    IF t.closed
    THEN Raise(t, "insert", "LpmClosedError")
    ELSE IF ~(0 <= next_hop /\ next_hop <= UINT_MAX)
    THEN Raise(t, "insert", "ValueError")
    ELSE IF ~AsNetwork(t, prefix).ok
    THEN Raise(t, "insert", "LpmInvalidPrefixError")
    ELSE LET n == AsNetwork(t, prefix)
             prefix_bytes == packed(prefix.addr, t.trie.w)
             r == trie_add(t.trie, from_bytes_big(prefix_bytes), n.len, next_hop, mem)
         IN  [tab |-> [t EXCEPT !.trie = r.trie],
              ret |-> Ret("insert",
                          IF r.rc # 0 THEN "LpmInsertError" ELSE "none",
                          None, <<>>, "add")]

\* insert without the range check of next_hop
insert_unranged(t, prefix, next_hop, mem) ==
    IF t.closed
    THEN Raise(t, "insert", "LpmClosedError")
    ELSE IF ~AsNetwork(t, prefix).ok
    THEN Raise(t, "insert", "LpmInvalidPrefixError")
    ELSE LET n == AsNetwork(t, prefix)
             prefix_bytes == packed(n.net, t.trie.w)
             r == trie_add(t.trie, from_bytes_big(prefix_bytes), n.len, next_hop, mem)
         IN  [tab |-> [t EXCEPT !.trie = r.trie],
              ret |-> Ret("insert",
                          IF r.rc # 0 THEN "LpmInsertError" ELSE "none",
                          None, <<>>, "add")]

\* insert that drops the engine's result
insert_unreported(t, prefix, next_hop, mem) ==
    IF t.closed
    THEN Raise(t, "insert", "LpmClosedError")
    ELSE IF ~(0 <= next_hop /\ next_hop <= UINT_MAX)
    THEN Raise(t, "insert", "ValueError")
    ELSE IF ~AsNetwork(t, prefix).ok
    THEN Raise(t, "insert", "LpmInvalidPrefixError")
    ELSE LET n == AsNetwork(t, prefix)
             prefix_bytes == packed(n.net, t.trie.w)
             r == trie_add(t.trie, from_bytes_big(prefix_bytes), n.len, next_hop, mem)
         IN  [tab |-> [t EXCEPT !.trie = r.trie],
              ret |-> Ret("insert", "none", None, <<>>, "add")]

\* insert that checks the next-hop range before the closed flag
insert_range_first(t, prefix, next_hop, mem) ==
    IF ~(0 <= next_hop /\ next_hop <= UINT_MAX)
    THEN Raise(t, "insert", "ValueError")
    ELSE IF t.closed
    THEN Raise(t, "insert", "LpmClosedError")
    ELSE IF ~AsNetwork(t, prefix).ok
    THEN Raise(t, "insert", "LpmInvalidPrefixError")
    ELSE LET n == AsNetwork(t, prefix)
             prefix_bytes == packed(n.net, t.trie.w)
             r == trie_add(t.trie, from_bytes_big(prefix_bytes), n.len, next_hop, mem)
         IN  [tab |-> [t EXCEPT !.trie = r.trie],
              ret |-> Ret("insert",
                          IF r.rc # 0 THEN "LpmInsertError" ELSE "none",
                          None, <<>>, "add")]

\* insert(prefix, next_hop); mem tells whether the engine gets the memory it
\* asks for
insert(t, prefix, next_hop, mem) ==
    IF t.closed
    THEN Raise(t, "insert", "LpmClosedError")
    ELSE IF ~(0 <= next_hop /\ next_hop <= UINT_MAX)
    THEN Raise(t, "insert", "ValueError")
    ELSE IF ~AsNetwork(t, prefix).ok
    THEN Raise(t, "insert", "LpmInvalidPrefixError")
    ELSE LET n == AsNetwork(t, prefix)
             prefix_bytes == packed(n.net, t.trie.w)
             r == trie_add(t.trie, from_bytes_big(prefix_bytes), n.len, next_hop, mem)
         IN  [tab |-> [t EXCEPT !.trie = r.trie],
              ret |-> Ret("insert",
                          IF r.rc # 0 THEN "LpmInsertError" ELSE "none",
                          None, <<>>, "add")]

\* delete that validates its argument and returns without calling the engine
delete_skipped(t, prefix) ==
    IF t.closed
    THEN Raise(t, "delete", "LpmClosedError")
    ELSE IF ~AsNetwork(t, prefix).ok
    THEN Raise(t, "delete", "LpmInvalidPrefixError")
    ELSE [tab |-> t, ret |-> Ret("delete", "none", None, <<>>, "none")]

\* delete without the closed check
delete_unguarded(t, prefix) ==
    IF ~AsNetwork(t, prefix).ok
    THEN Raise(t, "delete", "LpmInvalidPrefixError")
    ELSE LET n == AsNetwork(t, prefix)
             prefix_bytes == packed(n.net, t.trie.w)
             r == trie_delete(t.trie, from_bytes_big(prefix_bytes), n.len)
         IN  [tab |-> [t EXCEPT !.trie = r.trie],
              ret |-> Ret("delete",
                          IF r.rc # 0 THEN "LpmDeleteError" ELSE "none",
                          None, <<>>, "delete")]

\* delete that drops the engine's result
delete_unreported(t, prefix) ==
    IF t.closed
    THEN Raise(t, "delete", "LpmClosedError")
    ELSE IF ~AsNetwork(t, prefix).ok
    THEN Raise(t, "delete", "LpmInvalidPrefixError")
    ELSE LET n == AsNetwork(t, prefix)
             prefix_bytes == packed(n.net, t.trie.w)
             r == trie_delete(t.trie, from_bytes_big(prefix_bytes), n.len)
         IN  [tab |-> [t EXCEPT !.trie = r.trie],
              ret |-> Ret("delete", "none", None, <<>>, "delete")]

\* delete(prefix)
delete(t, prefix) ==
    IF t.closed
    THEN Raise(t, "delete", "LpmClosedError")
    ELSE IF ~AsNetwork(t, prefix).ok
    THEN Raise(t, "delete", "LpmInvalidPrefixError")
    ELSE LET n == AsNetwork(t, prefix)
             prefix_bytes == packed(n.net, t.trie.w)
             r == trie_delete(t.trie, from_bytes_big(prefix_bytes), n.len)
         IN  [tab |-> [t EXCEPT !.trie = r.trie],
              ret |-> Ret("delete",
                          IF r.rc # 0 THEN "LpmDeleteError" ELSE "none",
                          None, <<>>, "delete")]

\* the conversion written as `result or None`: every false value is a miss
OrNone_falsy(result) ==
    IF result = 0 \/ result = INVALID_NEXT_HOP THEN None ELSE result

\* result if result != INVALID_NEXT_HOP else None
OrNone(result) == IF result # INVALID_NEXT_HOP THEN result ELSE None

\* lookup that leaves the table marked closed
lookup_closing(t, addr) ==
    IF t.closed
    THEN Raise(t, "lookup", "LpmClosedError")
    ELSE IF ~ParseAddress(addr).ok
    THEN Raise(t, "lookup", "ValueError")
    ELSE LET a == ParseAddress(addr).a
             addr_int == from_bytes_big(packed(a, t.trie.w))
             result == trie_lookup(t.trie, addr_int)
         IN  [tab |-> [t EXCEPT !.closed = TRUE],
              ret |-> Ret("lookup", "none", OrNone(result), <<>>, "lookup")]

\* lookup(addr)
lookup(t, addr) ==
    IF t.closed
    THEN Raise(t, "lookup", "LpmClosedError")
    ELSE IF ~ParseAddress(addr).ok
    THEN Raise(t, "lookup", "ValueError")
    ELSE LET a == ParseAddress(addr).a
             addr_int == from_bytes_big(packed(a, t.trie.w))
             result == trie_lookup(t.trie, addr_int)
         IN  [tab |-> t,
              ret |-> Ret("lookup", "none", OrNone(result), <<>>, "lookup")]

\* lookup_batch that returns the engine's results as they come, the
\* sentinel not turned into None
lookup_batch_raw(t, addrs) ==
    IF t.closed
    THEN Raise(t, "lookup_batch", "LpmClosedError")
    ELSE IF Len(addrs) = 0
    THEN [tab |-> t, ret |-> Ret("lookup_batch", "none", None, <<>>, "none")]
    ELSE IF \E i \in 1 .. Len(addrs) : ~ParseAddress(addrs[i]).ok
    THEN Raise(t, "lookup_batch", "ValueError")
    ELSE LET addr_array == [i \in 1 .. Len(addrs) |->
                              from_bytes_big(packed(ParseAddress(addrs[i]).a, t.trie.w))]
             result_array == trie_lookup_batch(t.trie, addr_array)
         IN  [tab |-> t,
              ret |-> Ret("lookup_batch", "none", None, result_array,
                          "lookup_batch")]

\* lookup_batch that hands an empty list to the engine like any other
lookup_batch_eager(t, addrs) ==
    IF t.closed
    THEN Raise(t, "lookup_batch", "LpmClosedError")
    ELSE IF \E i \in 1 .. Len(addrs) : ~ParseAddress(addrs[i]).ok
    THEN Raise(t, "lookup_batch", "ValueError")
    ELSE LET addr_array == [i \in 1 .. Len(addrs) |->
                              from_bytes_big(packed(ParseAddress(addrs[i]).a, t.trie.w))]
             result_array == trie_lookup_batch(t.trie, addr_array)
         IN  [tab |-> t,
              ret |-> Ret("lookup_batch", "none", None,
                          [i \in 1 .. Len(addrs) |-> OrNone(result_array[i])],
                          "lookup_batch")]

\* lookup_batch(addrs)
lookup_batch(t, addrs) ==
    IF t.closed
    THEN Raise(t, "lookup_batch", "LpmClosedError")
    ELSE IF Len(addrs) = 0
    THEN [tab |-> t, ret |-> Ret("lookup_batch", "none", None, <<>>, "none")]
    ELSE IF \E i \in 1 .. Len(addrs) : ~ParseAddress(addrs[i]).ok
    THEN Raise(t, "lookup_batch", "ValueError")
    ELSE LET addr_array == [i \in 1 .. Len(addrs) |->
                              from_bytes_big(packed(ParseAddress(addrs[i]).a, t.trie.w))]
             result_array == trie_lookup_batch(t.trie, addr_array)
         IN  [tab |-> t,
              ret |-> Ret("lookup_batch", "none", None,
                          [i \in 1 .. Len(addrs) |-> OrNone(result_array[i])],
                          "lookup_batch")]

\* close that releases the engine whether or not the table is closed
close_unguarded(t) ==
    [tab |-> [t EXCEPT !.trie = trie_close(t.trie),
                       !.closed = TRUE,
                       !.releases = t.releases + 1],
     ret |-> Ret("close", "none", None, <<>>, "close")]

\* close()
close(t) ==
    IF ~t.closed
    THEN [tab |-> [t EXCEPT !.trie = trie_close(t.trie),
                            !.closed = TRUE,
                            !.releases = t.releases + 1],
          ret |-> Ret("close", "none", None, <<>>, "close")]
    ELSE [tab |-> t, ret |-> Ret("close", "none", None, <<>>, "none")]

\* __enter__(): returns self
__enter__(t) == [tab |-> t, ret |-> Ret("__enter__", "none", None, <<>>, "none")]

\* __exit__ that returns False without closing the table
exit_unclosed(t) ==
    [tab |-> t, ret |-> Ret("__exit__", "none", FALSE, <<>>, "none")]

\* __exit__(exc_type, exc_val, exc_tb): close(), then return False
__exit__(t) ==
    [tab |-> close(t).tab,
     ret |-> Ret("__exit__", "none", FALSE, <<>>, close(t).ret.engine)]

\* __del__(): close() unless already closed; the object is gone afterwards
__del__(t) ==
    LET c == IF ~t.closed THEN close(t) ELSE [tab |-> t, ret |-> Ret("", "", 0, <<>>, "none")]
    IN  [tab |-> [c.tab EXCEPT !.deleted = TRUE],
         ret |-> Ret("__del__", "none", None, <<>>, c.ret.engine)]

\* property closed
closed(t) == [tab |-> t, ret |-> Ret("closed", "none", t.closed, <<>>, "none")]

\* property algorithm: self._trie.algorithm
algorithm(t) ==
    [tab |-> t, ret |-> Ret("algorithm", "none", t.trie.algo, <<>>, "algorithm")]

\* num_prefixes that reads the engine's node count
num_prefixes_as_nodes(t, stale) ==
    [tab |-> t,
     ret |-> Ret("num_prefixes", "none",
                 IF t.trie.released THEN stale ELSE trie_num_nodes(t.trie),
                 <<>>, "num_prefixes")]

\* num_prefixes with the closed check of the methods
num_prefixes_guarded(t, stale) ==
    IF t.closed
    THEN Raise(t, "num_prefixes", "LpmClosedError")
    ELSE [tab |-> t,
          ret |-> Ret("num_prefixes", "none", trie_num_prefixes(t.trie),
                      <<>>, "num_prefixes")]

\* property num_prefixes: self._trie.num_prefixes; what a released engine
\* answers is not defined by the wrapper (stale)
num_prefixes(t, stale) ==
    [tab |-> t,
     ret |-> Ret("num_prefixes", "none",
                 IF t.trie.released THEN stale ELSE trie_num_prefixes(t.trie),
                 <<>>, "num_prefixes")]

\* property num_nodes: self._trie.num_nodes
num_nodes(t, stale) ==
    [tab |-> t,
     ret |-> Ret("num_nodes", "none",
                 IF t.trie.released THEN stale ELSE trie_num_nodes(t.trie),
                 <<>>, "num_nodes")]

\* property num_wide_nodes (LpmTableIPv6 only): self._trie.num_wide_nodes
num_wide_nodes(t, stale) ==
    [tab |-> t,
     ret |-> Ret("num_wide_nodes", "none",
                 IF t.trie.released THEN stale ELSE trie_num_wide_nodes(t.trie),
                 <<>>, "num_wide_nodes")]

\* __repr__(): reads _closed, then the algorithm and num_prefixes properties
__repr__(t, stale) ==
    [tab |-> t,
     ret |-> Ret("__repr__", "none",
                 <<algorithm(t).ret.val, num_prefixes(t, stale).ret.val,
                   IF t.closed THEN "closed" ELSE "open">>,
                 <<>>, "num_prefixes")]

----------------------------------------------------------------------------
(* Inputs                                                                  *)

\* the two addresses the explored prefixes are taken from: they share every
\* stride but the last and lie in different halves of the last node array
AddrA(family) == 2^AddrBits(family) - 2
AddrB(family) == AddrA(family) - 2^(StrideBits - 1)

InputAddrs(family) == {AddrA(family), AddrB(family)}

ProbeAddrs(family) == InputAddrs(family) \cup {0, 2^AddrBits(family) - 1}

OtherFamily(family) == IF family = "IPv4" THEN "IPv6" ELSE "IPv4"

\* prefix arguments: CIDR texts of AddrA with every length up to one past the
\* family's (host bits set), a text that does not parse, the network objects
\* of AddrB that differ from those of AddrA, a network object of the other
\* family, and an object that is no network
PrefixInputs(family) ==
    LET w == AddrBits(family)
    IN  {[kind |-> "str", family |-> family, addr |-> AddrA(family), len |-> l] :
            l \in 0 .. (w + 1)}
        \cup {[kind |-> "net", family |-> family,
               addr |-> Mask(AddrB(family), l, w), len |-> l] :
            l \in {n \in 0 .. w : Mask(AddrB(family), n, w) # Mask(AddrA(family), n, w)}}
        \cup {[kind |-> "badstr", family |-> family, addr |-> 0, len |-> 0],
              [kind |-> "net", family |-> OtherFamily(family), addr |-> 0, len |-> 0],
              [kind |-> "other", family |-> family, addr |-> 0, len |-> 0]}

\* next-hops the engine takes (the small ones), and with them the largest
\* value that passes insert's range check
LegalNextHops == 0 .. MaxNextHop
NextHopInputs == LegalNextHops \cup {UINT_MAX}

\* arguments of insert: every prefix with every next-hop in range; one
\* prefix with the next-hops just out of range; every prefix with an engine
\* that is out of memory
InsertInputs(family) ==
    {<<prefix, next_hop, TRUE>> :
        prefix \in PrefixInputs(family), next_hop \in NextHopInputs}
    \cup {<<prefix, next_hop, TRUE>> :
        prefix \in {p \in PrefixInputs(family) : p.kind = "str" /\ p.len = 0},
        next_hop \in {-1, UINT_MAX + 1}}
    \cup {<<prefix, 0, FALSE>> : prefix \in PrefixInputs(family)}

\* address arguments: the probe addresses as objects, AddrA as text, and a
\* text that does not parse
AddrInputs(family) ==
    {[kind |-> "addr", a |-> a] : a \in ProbeAddrs(family)}
    \cup {[kind |-> "str", a |-> AddrA(family)], [kind |-> "badstr", a |-> 0]}

RECURSIVE SeqsUpTo(_, _)
SeqsUpTo(S, n) ==
    IF n = 0
    THEN {<<>>}
    ELSE SeqsUpTo(S, n - 1)
         \cup {Append(q, x) : q \in {r \in SeqsUpTo(S, n - 1) : Len(r) = n - 1}, x \in S}

\* arguments of lookup_batch: the sequences of up to MaxBatch of these
BatchInputs(family) ==
    SeqsUpTo({[kind |-> "addr", a |-> AddrA(family)],
              [kind |-> "str", a |-> 0],
              [kind |-> "badstr", a |-> 0]}, MaxBatch)

AlgorithmInputs == {"dir24", "stride8", "wide16", "invalid"}

\* algorithm arguments of the constructors: the names as text and the
\* members of the Algorithm enum
AlgorithmArgs ==
    {[kind |-> "str", text |-> s, name |-> ""] : s \in AlgorithmInputs}
    \cup {[kind |-> "enum", text |-> "", name |-> n] : n \in {"DIR24", "WIDE16", "STRIDE8"}}

----------------------------------------------------------------------------
(* One table, every call of the wrapper                                    *)

\* no insert/delete cycle has begun
NoCycle == [n |-> 0, inside |-> FALSE, prefix |-> <<0, 0>>, nodes1 |-> 0]

\* no with-block has been entered
NoBlock == [phase |-> "none", raised |-> FALSE, propagated |-> FALSE]

\* number of threads sharing a table in a threaded run
NThreads == 2
Threads == 1 .. NThreads

\* a call that is not being made, and the outcome of no call
NoPrefix == [kind |-> "none", family |-> "none", addr |-> 0, len |-> 0]
NoAddr == [kind |-> "none", a |-> 0]
NoOp == [name |-> "none", prefix |-> NoPrefix, next_hop |-> 0, addr |-> NoAddr,
         addrs |-> <<>>]
NoRet == Ret("none", "none", None, <<>>, "none")

\* no thread has started: the lock is free and every thread is idle
NoThreads ==
    [lock   |-> 0,
     pc     |-> [i \in Threads |-> "idle"],
     op     |-> [i \in Threads |-> NoOp],
     seen   |-> [i \in Threads |-> NoTable],
     out    |-> [i \in Threads |-> NoRet],
     hazard |-> FALSE]

Init ==
    /\ tab = NoTable
    /\ peer = NoTable
    /\ cyc = NoCycle
    /\ blk = NoBlock
    /\ thr = NoThreads

Usable == tab.exists /\ ~tab.deleted

Apply(r) ==
    /\ tab' = r.tab
    /\ UNCHANGED <<peer, cyc, blk, thr>>

Construct ==
    /\ ~tab.exists
    /\ \E family \in Families, arg \in AlgorithmArgs :
          Apply(init(family, AsAlgoStr(arg)))

Insert ==
    /\ Usable
    /\ \E in \in InsertInputs(tab.family) :
          LET r == insert(tab, in[1], in[2], in[3])
          IN  /\ Cardinality(DOMAIN r.tab.trie.stored) <= MaxPrefixes
              /\ Apply(r)

Delete ==
    /\ Usable
    /\ \E prefix \in PrefixInputs(tab.family) : Apply(delete(tab, prefix))

Lookup ==
    /\ Usable
    /\ \E addr \in AddrInputs(tab.family) : Apply(lookup(tab, addr))

LookupBatch ==
    /\ Usable
    /\ \E addrs \in BatchInputs(tab.family) : Apply(lookup_batch(tab, addrs))

Close == Usable /\ Apply(close(tab))

Enter == Usable /\ Apply(__enter__(tab))

Exit == Usable /\ Apply(__exit__(tab))

Del == Usable /\ Apply(__del__(tab))

ReadClosed == Usable /\ Apply(closed(tab))

ReadAlgorithm == Usable /\ Apply(algorithm(tab))

ReadNumPrefixes ==
    /\ Usable
    /\ \E stale \in 0 .. MaxPrefixes : Apply(num_prefixes(tab, stale))

ReadNumNodes ==
    /\ Usable
    /\ \E stale \in 0 .. MaxPrefixes : Apply(num_nodes(tab, stale))

ReadNumWideNodes ==
    /\ Usable
    /\ tab.family = "IPv6"
    /\ \E stale \in 0 .. MaxPrefixes : Apply(num_wide_nodes(tab, stale))

Repr ==
    /\ Usable
    /\ \E stale \in 0 .. MaxPrefixes : Apply(__repr__(tab, stale))

Next ==
    \/ Construct
    \/ Insert
    \/ Delete
    \/ Lookup
    \/ LookupBatch
    \/ Close
    \/ Enter
    \/ Exit
    \/ Del
    \/ ReadClosed
    \/ ReadAlgorithm
    \/ ReadNumPrefixes
    \/ ReadNumNodes
    \/ ReadNumWideNodes
    \/ Repr

Spec == Init /\ [][Next]_vars

----------------------------------------------------------------------------
(* Two tables of one family, one per algorithm, driven by the same inserts *)
(* and deletes (tests: test_algorithm_basic_operations, parametrized over  *)
(* the algorithms).  Both engines get the memory they ask for.             *)

PairConstruct ==
    /\ ~tab.exists
    /\ \E family \in Families :
        \E a1 \in ValidAlgorithms(family), a2 \in ValidAlgorithms(family) :
          /\ a1 # a2
          /\ tab' = init(family, a1).tab
          /\ peer' = init(family, a2).tab
          /\ UNCHANGED <<cyc, blk, thr>>

PairInsert ==
    /\ tab.exists
    /\ \E prefix \in PrefixInputs(tab.family), next_hop \in NextHopInputs :
          LET r == insert(tab, prefix, next_hop, TRUE)
          IN  /\ Cardinality(DOMAIN r.tab.trie.stored) <= MaxPrefixes
              /\ tab' = r.tab
              /\ peer' = insert(peer, prefix, next_hop, TRUE).tab
              /\ UNCHANGED <<cyc, blk, thr>>

PairDelete ==
    /\ tab.exists
    /\ \E prefix \in PrefixInputs(tab.family) :
          /\ tab' = delete(tab, prefix).tab
          /\ peer' = delete(peer, prefix).tab
          /\ UNCHANGED <<cyc, blk, thr>>

NextPair ==
    \/ PairConstruct
    \/ PairInsert
    \/ PairDelete

SpecPair == Init /\ [][NextPair]_vars

----------------------------------------------------------------------------
(* One table taken through insert/delete cycles of one prefix (tests:      *)
(* test_repeated_insert_delete_ipv4 / _ipv6).  A cycle is an insert that   *)
(* succeeds followed by the delete of the same prefix.                     *)

CycleInsert ==
    /\ Usable /\ ~tab.closed
    /\ ~cyc.inside
    /\ cyc.n < MaxCycles
    /\ \E prefix \in PrefixInputs(tab.family), next_hop \in NextHopInputs :
          LET n == AsNetwork(tab, prefix)
              r == insert(tab, prefix, next_hop, TRUE)
          IN  /\ n.ok
              /\ cyc.n > 0 => <<n.net, n.len>> = cyc.prefix
              /\ r.ret.exc = "none"
              /\ tab' = r.tab
              /\ cyc' = [cyc EXCEPT !.inside = TRUE, !.prefix = <<n.net, n.len>>]
              /\ UNCHANGED <<peer, blk, thr>>

CycleDelete ==
    /\ Usable /\ ~tab.closed
    /\ cyc.inside
    /\ \E prefix \in PrefixInputs(tab.family) :
          LET n == AsNetwork(tab, prefix)
              r == delete(tab, prefix)
          IN  /\ n.ok
              /\ <<n.net, n.len>> = cyc.prefix
              /\ r.ret.exc = "none"
              /\ tab' = r.tab
              /\ cyc' = [cyc EXCEPT
                          !.inside = FALSE,
                          !.n = cyc.n + 1,
                          !.nodes1 = IF cyc.n = 0
                                     THEN num_nodes(r.tab, 0).ret.val
                                     ELSE cyc.nodes1]
              /\ UNCHANGED <<peer, blk, thr>>

NextCycles ==
    \/ Construct
    \/ CycleInsert
    \/ CycleDelete

SpecCycles == Init /\ [][NextCycles]_vars

----------------------------------------------------------------------------
(* One table used as a context manager (tests:                             *)
(* test_context_manager_cleanup, test_context_manager_exception):          *)
(*     with LpmTableIPv4(...) as table: <body>                             *)
(* The interpreter calls __enter__, runs the body, and calls __exit__ when *)
(* the body ends or raises; the exception of the body propagates unless    *)
(* __exit__ returns a true value.  The body inserts, deletes and looks up; *)
(* it does not close the table itself.                                     *)

WithEnter ==
    /\ ~tab.exists
    /\ blk.phase = "none"
    /\ \E family \in Families, arg \in AlgorithmArgs :
          LET c == init(family, AsAlgoStr(arg))
          IN  /\ c.ret.exc = "none"
              /\ tab' = __enter__(c.tab).tab
              /\ blk' = [blk EXCEPT !.phase = "inside"]
              /\ UNCHANGED <<peer, cyc, thr>>

\* a call of the body: an exception it raises ends the body
Body(r) ==
    /\ tab' = r.tab
    /\ blk' = [blk EXCEPT !.raised = (r.ret.exc # "none")]
    /\ UNCHANGED <<peer, cyc, thr>>

InBody == blk.phase = "inside" /\ ~blk.raised

BodyInsert ==
    /\ InBody
    /\ \E in \in InsertInputs(tab.family) :
          LET r == insert(tab, in[1], in[2], in[3])
          IN  /\ Cardinality(DOMAIN r.tab.trie.stored) <= MaxPrefixes
              /\ Body(r)

BodyDelete ==
    /\ InBody
    /\ \E prefix \in PrefixInputs(tab.family) : Body(delete(tab, prefix))

BodyLookup ==
    /\ InBody
    /\ \E addr \in AddrInputs(tab.family) : Body(lookup(tab, addr))

\* raise ValueError("Test exception") in the body
BodyRaise ==
    /\ InBody
    /\ blk' = [blk EXCEPT !.raised = TRUE]
    /\ UNCHANGED <<tab, peer, cyc, thr>>

\* the block is left, at its end or by the exception raised in it
WithExit ==
    /\ blk.phase = "inside"
    /\ LET x == __exit__(tab)
       IN  /\ tab' = x.tab
           /\ blk' = [blk EXCEPT !.phase = "left",
                                 !.propagated = (blk.raised /\ x.ret.val = FALSE)]
           /\ UNCHANGED <<peer, cyc, thr>>

NextWith ==
    \/ WithEnter
    \/ BodyInsert
    \/ BodyDelete
    \/ BodyLookup
    \/ BodyRaise
    \/ WithExit

SpecWith == Init /\ [][NextWith]_vars

----------------------------------------------------------------------------
(* One table shared by several threads.  The wrapper takes no lock of its  *)
(* own (class docstring: "The table is not thread-safe. For concurrent     *)
(* access, use external synchronization (e.g., threading.RLock)"), so the  *)
(* callers do: each thread acquires the one lock of the table, makes one   *)
(* call, and releases the lock.  A call is two steps, the closed check its *)
(* method begins with and the rest of its body, so that a step of another  *)
(* thread could fall between them if the lock let it.  An engine call on a *)
(* released handle is undefined behaviour; the run records it as a hazard. *)

\* the calls the threads make: inserts and deletes of the default route and
\* of the host route of AddrA, lookups of an address under both and of one
\* under the default route only, a batch of the two, and close
ThreadPrefixes(family) ==
    {p \in PrefixInputs(family) :
        p.kind = "str" /\ p.len \in {0, AddrBits(family)}}

ThreadOps(family) ==
    {[name |-> "insert", prefix |-> p, next_hop |-> n, addr |-> NoAddr,
      addrs |-> <<>>] : p \in ThreadPrefixes(family), n \in NextHopInputs}
    \cup {[name |-> "delete", prefix |-> p, next_hop |-> 0, addr |-> NoAddr,
           addrs |-> <<>>] : p \in ThreadPrefixes(family)}
    \cup {[name |-> "lookup", prefix |-> NoPrefix, next_hop |-> 0,
           addr |-> [kind |-> "addr", a |-> a], addrs |-> <<>>] :
              a \in {AddrA(family), 0}}
    \cup {[name |-> "lookup_batch", prefix |-> NoPrefix, next_hop |-> 0,
           addr |-> NoAddr,
           addrs |-> <<[kind |-> "addr", a |-> AddrA(family)],
                       [kind |-> "addr", a |-> 0]>>],
          [name |-> "close", prefix |-> NoPrefix, next_hop |-> 0,
           addr |-> NoAddr, addrs |-> <<>>]}

\* the lock is free: no thread holds it
LockFree(lock) == lock = 0

\* "if self._closed" at the head of every method
ClosedCheck(t) == t.closed

\* the call op made on table t
Perform(t, op) ==
    CASE op.name = "insert"       -> insert(t, op.prefix, op.next_hop, TRUE)
      [] op.name = "delete"       -> delete(t, op.prefix)
      [] op.name = "lookup"       -> lookup(t, op.addr)
      [] op.name = "lookup_batch" -> lookup_batch(t, op.addrs)
      [] op.name = "close"        -> close(t)

\* the table is built before the threads start
LockedConstruct ==
    /\ ~tab.exists
    /\ \E family \in Families, algo_str \in AlgorithmInputs :
          LET c == init(family, algo_str)
          IN  /\ c.ret.exc = "none"
              /\ tab' = c.tab
              /\ UNCHANGED <<peer, cyc, blk, thr>>

\* thread i takes the lock and begins a call
Acquire(i) ==
    /\ tab.exists
    /\ thr.pc[i] = "idle"
    /\ LockFree(thr.lock)
    /\ \E op \in ThreadOps(tab.family) :
          /\ op.name = "insert" =>
                Cardinality(DOMAIN Perform(tab, op).tab.trie.stored) <= MaxPrefixes
          /\ thr' = [thr EXCEPT !.lock = i,
                                !.pc[i] = "locked",
                                !.op[i] = op,
                                !.seen[i] = tab]
          /\ UNCHANGED <<tab, peer, cyc, blk>>

\* the closed check: a closed table ends the call here (LpmClosedError, or
\* nothing at all for close)
Check(i) ==
    /\ thr.pc[i] = "locked"
    /\ IF ClosedCheck(tab)
       THEN thr' = [thr EXCEPT !.pc[i] = "done",
                               !.out[i] = Perform(tab, thr.op[i]).ret]
       ELSE thr' = [thr EXCEPT !.pc[i] = "checked"]
    /\ UNCHANGED <<tab, peer, cyc, blk>>

\* the rest of the method: validation and the engine call
Call(i) ==
    /\ thr.pc[i] = "checked"
    /\ IF tab.trie.released
       THEN /\ thr' = [thr EXCEPT !.pc[i] = "done", !.hazard = TRUE]
            /\ UNCHANGED tab
       ELSE /\ thr' = [thr EXCEPT !.pc[i] = "done",
                                  !.out[i] = Perform(tab, thr.op[i]).ret]
            /\ tab' = Perform(tab, thr.op[i]).tab
    /\ UNCHANGED <<peer, cyc, blk>>

\* the call has returned or raised: thread i releases the lock
Release(i) ==
    /\ thr.pc[i] = "done"
    /\ thr' = [thr EXCEPT !.lock = IF thr.lock = i THEN 0 ELSE thr.lock,
                          !.pc[i] = "idle",
                          !.op[i] = NoOp,
                          !.seen[i] = NoTable,
                          !.out[i] = NoRet]
    /\ UNCHANGED <<tab, peer, cyc, blk>>

ThreadAcquire == \E i \in Threads : Acquire(i)
ThreadCheck == \E i \in Threads : Check(i)
ThreadCall == \E i \in Threads : Call(i)
ThreadRelease == \E i \in Threads : Release(i)

NextLocked ==
    \/ LockedConstruct
    \/ ThreadAcquire
    \/ ThreadCheck
    \/ ThreadCall
    \/ ThreadRelease

SpecLocked == Init /\ [][NextLocked]_vars

----------------------------------------------------------------------------
(* One table that is built, inserted into and deleted from, and closed at   *)
(* some point, by calls that return normally: the states of the routing    *)
(* table itself, every stored set of up to MaxPrefixes prefixes reached    *)
(* through every order of inserts and deletes (tests:                      *)
(* test_lookup_longest_prefix_match, test_delete_existing,                 *)
(* test_multiple_tables).                                                  *)

RoutesConstruct ==
    /\ ~tab.exists
    /\ \E family \in Families, algo_str \in AlgorithmInputs :
          LET c == init(family, algo_str)
          IN  /\ c.ret.exc = "none"
              /\ Apply(c)

RoutesInsert ==
    /\ tab.exists
    /\ \E prefix \in PrefixInputs(tab.family), next_hop \in NextHopInputs :
          LET r == insert(tab, prefix, next_hop, TRUE)
          IN  /\ r.ret.exc = "none"
              /\ Cardinality(DOMAIN r.tab.trie.stored) <= MaxPrefixes
              /\ Apply(r)

RoutesDelete ==
    /\ tab.exists
    /\ \E prefix \in PrefixInputs(tab.family) :
          LET r == delete(tab, prefix)
          IN  /\ r.ret.exc = "none"
              /\ Apply(r)

\* the table is closed at some point; every later call is refused
RoutesClose == tab.exists /\ ~tab.closed /\ Apply(close(tab))

NextRoutes ==
    \/ RoutesConstruct
    \/ RoutesInsert
    \/ RoutesDelete
    \/ RoutesClose

SpecRoutes == Init /\ [][NextRoutes]_vars

----------------------------------------------------------------------------
(* The same table with two next-hops only, the smallest and the largest    *)
(* that insert's range check lets through, which keeps the step-by-step    *)
(* comparisons of a table before and after a call small.                   *)

EdgeNextHops == {0, UINT_MAX}

StepConstruct ==
    /\ ~tab.exists
    /\ \E family \in Families, algo_str \in AlgorithmInputs :
          LET c == init(family, algo_str)
          IN  /\ c.ret.exc = "none"
              /\ Apply(c)

StepInsert ==
    /\ tab.exists
    /\ \E prefix \in PrefixInputs(tab.family), next_hop \in EdgeNextHops :
          LET r == insert(tab, prefix, next_hop, TRUE)
          IN  /\ r.ret.exc = "none"
              /\ Cardinality(DOMAIN r.tab.trie.stored) <= MaxPrefixes
              /\ Apply(r)

StepDelete ==
    /\ tab.exists
    /\ \E prefix \in PrefixInputs(tab.family) :
          LET r == delete(tab, prefix)
          IN  /\ r.ret.exc = "none"
              /\ Apply(r)

\* the table is closed at some point; every later call is refused
StepClose == tab.exists /\ ~tab.closed /\ Apply(close(tab))

NextSteps ==
    \/ StepConstruct
    \/ StepInsert
    \/ StepDelete
    \/ StepClose

SpecSteps == Init /\ [][NextSteps]_vars

----------------------------------------------------------------------------
(* Two tables of one algorithm that hold the same prefixes through         *)
(* different histories: tab is inserted into and deleted from in every     *)
(* order; peer is a fresh table into which the prefixes tab holds are      *)
(* inserted from the shortest to the longest, nothing ever deleted.        *)

\* the first of a non-empty set of prefixes: the shortest, and of those the
\* one with the lowest network address
First(ps) ==
    CHOOSE p \in ps :
        \A q \in ps : p[2] < q[2] \/ (p[2] = q[2] /\ p[1] <= q[1])

\* table t after inserting the prefixes of `todo`, in order, with the
\* next-hops `stored` gives them
RECURSIVE InsertInOrder(_, _, _)
InsertInOrder(t, stored, todo) ==
    IF todo = {}
    THEN t
    ELSE LET p == First(todo)
             prefix == [kind |-> "net", family |-> t.family,
                        addr |-> p[1], len |-> p[2]]
         IN  InsertInOrder(insert(t, prefix, stored[p], TRUE).tab, stored,
                           todo \ {p})

\* a fresh table of the family and algorithm of t, holding what t holds
Rebuilt(t) ==
    InsertInOrder(init(t.family, t.trie.algo).tab, t.trie.stored,
                  DOMAIN t.trie.stored)

OrdersConstruct ==
    /\ ~tab.exists
    /\ \E family \in Families, algo_str \in AlgorithmInputs :
          LET c == init(family, algo_str)
          IN  /\ c.ret.exc = "none"
              /\ tab' = c.tab
              /\ peer' = init(family, algo_str).tab
              /\ UNCHANGED <<cyc, blk, thr>>

OrdersInsert ==
    /\ tab.exists
    /\ \E prefix \in PrefixInputs(tab.family), next_hop \in EdgeNextHops :
          LET r == insert(tab, prefix, next_hop, TRUE)
          IN  /\ r.ret.exc = "none"
              /\ Cardinality(DOMAIN r.tab.trie.stored) <= MaxPrefixes
              /\ tab' = r.tab
              /\ peer' = Rebuilt(r.tab)
              /\ UNCHANGED <<cyc, blk, thr>>

OrdersDelete ==
    /\ tab.exists
    /\ \E prefix \in PrefixInputs(tab.family) :
          LET r == delete(tab, prefix)
          IN  /\ r.ret.exc = "none"
              /\ tab' = r.tab
              /\ peer' = Rebuilt(r.tab)
              /\ UNCHANGED <<cyc, blk, thr>>

NextOrders ==
    \/ OrdersConstruct
    \/ OrdersInsert
    \/ OrdersDelete

SpecOrders == Init /\ [][NextOrders]_vars

----------------------------------------------------------------------------
(* Vocabulary of the properties                                            *)

Open(t) == t.exists /\ ~t.closed

Shut(t) == t.exists /\ t.closed

\* an address handed over as an IPv4Address / IPv6Address object
ObjAddr(a) == [kind |-> "addr", a |-> a]

\* what lookup returns for address a
Found(t, a) == lookup(t, ObjAddr(a)).ret.val

\* the stored prefixes that cover address a
Covering(t, a) ==
    {p \in DOMAIN t.trie.stored : Mask(a, p[2], t.trie.w) = p[1]}

\* the most specific stored prefix covering a (Covering(t, a) not empty)
Best(t, a) ==
    CHOOSE p \in Covering(t, a) : \A q \in Covering(t, a) : q[2] <= p[2]

\* the longest-prefix-match answer: the next-hop of the most specific stored
\* prefix covering a, the miss result if there is none
Match(t, a) ==
    IF Covering(t, a) = {} THEN None ELSE t.trie.stored[Best(t, a)]

\* no stored prefix carries the reserved next-hop (the engine's precondition
\* on insert, spec section 3)
SentinelFree(t) ==
    \A p \in DOMAIN t.trie.stored : t.trie.stored[p] # INVALID_NEXT_HOP

\* the prefix inputs that denote the stored pair p of table t
Denoting(t, p) ==
    {prefix \in PrefixInputs(t.family) :
        LET n == AsNetwork(t, prefix)
        IN  n.ok /\ <<n.net, n.len>> = p}

----------------------------------------------------------------------------
(* Longest-prefix match                                                    *)

\* C1: on an open table, lookup of any address returns the next-hop of the
\* longest stored prefix covering it, and returns the miss result exactly
\* when no stored prefix covers it.
C1_LookupIsLongestMatch ==
    Open(tab) =>
        \A a \in Addresses(tab.family) :
            /\ Found(tab, a) = Match(tab, a)
            /\ (Found(tab, a) = None) <=> (Covering(tab, a) = {})

\* What is left of C1 once the reserved next-hop is kept out of the table:
\* with no stored next-hop equal to INVALID_NEXT_HOP, lookup is the
\* longest-prefix match.
LongestMatchBelowSentinel ==
    (Open(tab) /\ SentinelFree(tab)) =>
        \A a \in Addresses(tab.family) :
            /\ Found(tab, a) = Match(tab, a)
            /\ (Found(tab, a) = None) <=> (Covering(tab, a) = {})

\* a longer and a shorter stored prefix cover one address, and another
\* address is covered by the shorter one only
NestedMatchReached ==
    /\ Open(tab) /\ SentinelFree(tab)
    /\ \E a \in Addresses(tab.family), b \in Addresses(tab.family) :
          /\ Cardinality(Covering(tab, a)) = 2
          /\ Cardinality(Covering(tab, b)) = 1
          /\ Found(tab, a) # Found(tab, b)

\* the table after a successful delete of the stored pair p
AfterDelete(t, p) == delete(t, CHOOSE prefix \in Denoting(t, p) : TRUE).tab

\* C2: after a successful delete of a stored prefix P, every address whose
\* longest covering prefix was P looks up to the next-hop of the longest
\* remaining stored prefix covering it, or to the miss result if none
\* remains.
C2_DeleteRestoresLessSpecific ==
    Open(tab) =>
        \A p \in DOMAIN tab.trie.stored :
            \A prefix \in Denoting(tab, p) :
                LET r == delete(tab, prefix)
                IN  /\ r.ret.exc = "none"
                    /\ \A a \in Addresses(tab.family) :
                          (Covering(tab, a) # {} /\ Best(tab, a) = p) =>
                              /\ Covering(r.tab, a) = Covering(tab, a) \ {p}
                              /\ Found(r.tab, a) = Match(r.tab, a)

\* What is left of C2 once the reserved next-hop is kept out of the table.
DeleteRestoresBelowSentinel ==
    (Open(tab) /\ SentinelFree(tab)) =>
        \A p \in DOMAIN tab.trie.stored :
            \A prefix \in Denoting(tab, p) :
                LET r == delete(tab, prefix)
                IN  /\ r.ret.exc = "none"
                    /\ \A a \in Addresses(tab.family) :
                          (Covering(tab, a) # {} /\ Best(tab, a) = p) =>
                              /\ Covering(r.tab, a) = Covering(tab, a) \ {p}
                              /\ Found(r.tab, a) = Match(r.tab, a)

\* a delete uncovers a less specific prefix for one address
DeleteRestoreReached ==
    /\ Open(tab) /\ SentinelFree(tab)
    /\ \E p \in DOMAIN tab.trie.stored, a \in Addresses(tab.family) :
          /\ Cardinality(Covering(tab, a)) = 2
          /\ Best(tab, a) = p
          /\ Found(AfterDelete(tab, p), a) # None
          /\ Found(AfterDelete(tab, p), a) # Found(tab, a)

\* C4: inserting a pair already stored, with a new next-hop, succeeds,
\* leaves num_prefixes unchanged, and makes every address whose longest
\* covering prefix is that pair look up to the new next-hop.
C4_ReinsertUpdatesNextHop ==
    Open(tab) =>
        \A p \in DOMAIN tab.trie.stored, next_hop \in NextHopInputs :
            \A prefix \in Denoting(tab, p), mem \in BOOLEAN :
                next_hop # tab.trie.stored[p] =>
                    LET r == insert(tab, prefix, next_hop, mem)
                    IN  /\ r.ret.exc = "none"
                        /\ num_prefixes(r.tab, 0).ret.val
                              = num_prefixes(tab, 0).ret.val
                        /\ \A a \in Addresses(tab.family) :
                              (Covering(tab, a) # {} /\ Best(tab, a) = p) =>
                                  Found(r.tab, a) = next_hop

\* What is left of C4 when the new next-hop is not the reserved one.
ReinsertBelowSentinel ==
    Open(tab) =>
        \A p \in DOMAIN tab.trie.stored, next_hop \in LegalNextHops :
            \A prefix \in Denoting(tab, p), mem \in BOOLEAN :
                next_hop # tab.trie.stored[p] =>
                    LET r == insert(tab, prefix, next_hop, mem)
                    IN  /\ r.ret.exc = "none"
                        /\ num_prefixes(r.tab, 0).ret.val
                              = num_prefixes(tab, 0).ret.val
                        /\ \A a \in Addresses(tab.family) :
                              (Covering(tab, a) # {} /\ Best(tab, a) = p) =>
                                  Found(r.tab, a) = next_hop

\* C5: with the zero-length prefix stored, every address not covered by a
\* stored prefix of positive length looks up to the default route's
\* next-hop.
C5_DefaultRoute ==
    (Open(tab) /\ <<0, 0>> \in DOMAIN tab.trie.stored) =>
        \A a \in Addresses(tab.family) :
            Covering(tab, a) = {<<0, 0>>} =>
                Found(tab, a) = tab.trie.stored[<<0, 0>>]

\* What is left of C5 when the default route's next-hop is not the reserved
\* one.
DefaultRouteBelowSentinel ==
    (Open(tab) /\ <<0, 0>> \in DOMAIN tab.trie.stored
               /\ tab.trie.stored[<<0, 0>>] # INVALID_NEXT_HOP) =>
        \A a \in Addresses(tab.family) :
            Covering(tab, a) = {<<0, 0>>} =>
                Found(tab, a) = tab.trie.stored[<<0, 0>>]

\* a default route answers beside a more specific prefix
DefaultRouteReached ==
    /\ Open(tab)
    /\ Cardinality(DOMAIN tab.trie.stored) = 2
    /\ <<0, 0>> \in DOMAIN tab.trie.stored
    /\ \E a \in Addresses(tab.family) :
          /\ Covering(tab, a) = {<<0, 0>>}
          /\ Found(tab, a) = tab.trie.stored[<<0, 0>>]

----------------------------------------------------------------------------
(* Batch lookup                                                            *)

\* every element of the sequence is an address of the table's family
WellFormed(addrs) == \A i \in 1 .. Len(addrs) : ParseAddress(addrs[i]).ok

\* C3: on an open table, for every address sequence, the empty one
\* included, lookup_batch returns a list of the same length whose i-th
\* element is what lookup returns for the i-th address.
C3_BatchMatchesSingle ==
    Open(tab) =>
        \A addrs \in BatchInputs(tab.family) :
            WellFormed(addrs) =>
                LET b == lookup_batch(tab, addrs).ret
                IN  /\ b.exc = "none"
                    /\ Len(b.vals) = Len(addrs)
                    /\ \A i \in 1 .. Len(addrs) :
                          b.vals[i] = lookup(tab, addrs[i]).ret.val

\* a batch of two addresses answers with one hit and one miss
C3_HitAndMissBatch ==
    /\ Open(tab)
    /\ \E addrs \in BatchInputs(tab.family) :
          /\ WellFormed(addrs)
          /\ Len(addrs) = 2
          /\ lookup_batch(tab, addrs).ret.vals[1] \in LegalNextHops
          /\ lookup_batch(tab, addrs).ret.vals[2] = None

----------------------------------------------------------------------------
(* Closed tables                                                           *)

\* the prefix arguments insert and delete accept
GoodPrefixes(t) == {prefix \in PrefixInputs(t.family) : AsNetwork(t, prefix).ok}

\* the address arguments lookup accepts
GoodAddrs(t) == {addr \in AddrInputs(t.family) : ParseAddress(addr).ok}

\* the call raised LpmClosedError, did not reach the engine and left the
\* table as it was
Rejected(t, r) ==
    /\ r.ret.exc = "LpmClosedError"
    /\ r.ret.engine = "none"
    /\ r.tab = t

\* insert, delete, lookup and lookup_batch of a closed table are rejected
MethodsRejected(t) ==
    /\ \A prefix \in GoodPrefixes(t), next_hop \in LegalNextHops :
          Rejected(t, insert(t, prefix, next_hop, TRUE))
    /\ \A prefix \in GoodPrefixes(t) : Rejected(t, delete(t, prefix))
    /\ \A addr \in GoodAddrs(t) : Rejected(t, lookup(t, addr))
    /\ \A addrs \in BatchInputs(t.family) :
          WellFormed(addrs) => Rejected(t, lookup_batch(t, addrs))

\* C8: once close has run, every insert, delete, lookup and lookup_batch
\* with well-formed arguments raises LpmClosedError and the engine is not
\* called.
C8_ClosedRejectsOperations == Shut(tab) => MethodsRejected(tab)

\* a table has been closed, its engine released once, and refuses a lookup
C8_ClosedAfterUse ==
    /\ Shut(tab)
    /\ tab.releases = 1
    /\ tab.trie.released
    /\ lookup(tab, ObjAddr(AddrA(tab.family))).ret.exc = "LpmClosedError"

\* what the engine of a released table may answer to a statistics read
StaleValues == 0 .. 1

\* predicate P holds of every statistics read of table t, whatever the
\* engine answers
StatsReads(t, P(_)) ==
    /\ P(algorithm(t))
    /\ \A stale \in StaleValues :
          /\ P(num_prefixes(t, stale))
          /\ P(num_nodes(t, stale))
          /\ t.family = "IPv6" => P(num_wide_nodes(t, stale))

\* the read raised nothing and went to the engine handle
Forwarded(t, r) ==
    /\ r.ret.exc = "none"
    /\ r.ret.engine = r.ret.op
    /\ r.tab = t

ClosesOnce(t, r) ==
    /\ r.ret.exc = "none"
    /\ r.tab.closed
    /\ r.tab.releases = 1
    /\ r.tab.trie.released
    /\ t.closed =>
          /\ r.ret.engine = "none"
          /\ r.tab.trie = t.trie

\* C10: the first close releases the engine exactly once and sets closed;
\* every later close, explicit, by __exit__ or by __del__, raises nothing,
\* does not call the engine's close again and leaves closed True.
C10_CloseIdempotent ==
    tab.exists =>
        /\ tab.releases = (IF tab.closed THEN 1 ELSE 0)
        /\ ClosesOnce(tab, close(tab))
        /\ ClosesOnce(tab, __exit__(tab))
        /\ ClosesOnce(tab, __del__(tab))

\* a closed table has been finalized: close ran, then __del__ after it
C10_ClosedThenFinalized ==
    /\ Shut(tab)
    /\ tab.deleted
    /\ tab.releases = 1

----------------------------------------------------------------------------
(* Algorithms                                                              *)

\* C6: two tables of one family built with the two algorithms and given the
\* same inserts and deletes return the same result for every lookup and
\* report the same num_prefixes.
C6_AlgorithmsAgree ==
    (tab.exists /\ peer.exists) =>
        /\ num_prefixes(tab, 0).ret.val = num_prefixes(peer, 0).ret.val
        /\ \A a \in Addresses(tab.family) : Found(tab, a) = Found(peer, a)

\* the two algorithms hold two prefixes in different layouts and answer one
\* address with a next-hop and another with a miss
C6_LayoutsDiffer ==
    /\ tab.exists /\ peer.exists
    /\ tab.trie.algo # peer.trie.algo
    /\ Cardinality(DOMAIN tab.trie.stored) = 2
    /\ tab.trie.top # peer.trie.top
    /\ \E a \in Addresses(tab.family), b \in Addresses(tab.family) :
          /\ Found(peer, a) \in LegalNextHops
          /\ Found(peer, b) = None

----------------------------------------------------------------------------
(* Insert/delete cycles                                                    *)

\* C7: starting from an empty table, after any number n >= 1 of insert /
\* delete cycles of one prefix, num_prefixes is 0, every lookup returns the
\* miss result, and num_nodes equals num_nodes after the first cycle.
C7_CyclesLeaveNoTrace ==
    (tab.exists /\ cyc.n >= 1 /\ ~cyc.inside) =>
        /\ num_prefixes(tab, 0).ret.val = 0
        /\ \A a \in Addresses(tab.family) : Found(tab, a) = None
        /\ num_nodes(tab, 0).ret.val = cyc.nodes1

\* several cycles of a prefix longer than one stride are over, and the
\* nodes its path allocated are still counted
C7_CyclesDone ==
    /\ tab.exists
    /\ cyc.n = MaxCycles /\ ~cyc.inside
    /\ cyc.prefix[2] > StrideBits
    /\ tab.trie.nodes # <<>>
    /\ num_nodes(tab, 0).ret.val = cyc.nodes1

----------------------------------------------------------------------------
(* Arguments of insert, of delete and of the constructors                  *)

\* C11: insert rejects a next_hop equal to the reserved sentinel: the call
\* fails with an invalid-next-hop error, the prefix is not stored, and in
\* every reachable state no stored prefix has the sentinel as next-hop.
C11_SentinelRejected ==
    Open(tab) =>
        /\ SentinelFree(tab)
        /\ \A prefix \in GoodPrefixes(tab) :
              LET r == insert(tab, prefix, INVALID_NEXT_HOP, TRUE)
              IN  /\ r.ret.exc = "ValueError"
                  /\ r.ret.engine = "none"
                  /\ r.tab = tab

\* the call left the table as it was: the stored prefixes, the node arrays
\* and with them num_prefixes and every lookup result
Untouched(t, r) == r.tab = t

\* the next-hops just outside the range insert accepts
OutOfRange == {-1, UINT_MAX + 1}

\* C12: insert on an open table with a next_hop that is negative or greater
\* than the largest 32-bit value raises ValueError before the engine is
\* called; stored prefixes, num_prefixes and lookup results are unchanged.
C12_OutOfRangeNextHop ==
    Open(tab) =>
        \A prefix \in PrefixInputs(tab.family), next_hop \in OutOfRange :
            \A mem \in BOOLEAN :
                LET r == insert(tab, prefix, next_hop, mem)
                IN  /\ r.ret.exc = "ValueError"
                    /\ r.ret.engine = "none"
                    /\ Untouched(tab, r)

\* a table holding a prefix refuses both out-of-range next-hops for a
\* prefix it would take
C12_RefusedOnUsedTable ==
    /\ Open(tab)
    /\ tab.trie.stored # <<>>
    /\ \E prefix \in GoodPrefixes(tab) :
          /\ insert(tab, prefix, 0, TRUE).ret.exc = "none"
          /\ \A next_hop \in OutOfRange :
                insert(tab, prefix, next_hop, TRUE).ret.exc = "ValueError"

\* C13: LpmTableIPv4 accepts 'dir24' and 'stride8', LpmTableIPv6 'wide16'
\* and 'stride8', as text or as member of Algorithm; any other value raises
\* ValueError and creates no engine; a successful construction yields an
\* open, empty table whose algorithm property is the requested one.
C13_ConstructionValidatesAlgorithm ==
    /\ ~tab.exists =>
          \A family \in Families, arg \in AlgorithmArgs :
              LET algo == AsAlgoStr(arg)
                  r    == init(family, algo)
              IN  IF \/ family = "IPv4" /\ algo \in {"dir24", "stride8"}
                     \/ family = "IPv6" /\ algo \in {"wide16", "stride8"}
                  THEN /\ r.ret.exc = "none"
                       /\ r.tab.exists
                       /\ closed(r.tab).ret.val = FALSE
                       /\ num_prefixes(r.tab, 0).ret.val = 0
                       /\ algorithm(r.tab).ret.val = algo
                  ELSE /\ r.ret.exc = "ValueError"
                       /\ r.ret.engine = "none"
                       /\ ~r.tab.exists
    /\ tab.exists =>
          \/ tab.family = "IPv4" /\ algorithm(tab).ret.val \in {"dir24", "stride8"}
          \/ tab.family = "IPv6" /\ algorithm(tab).ret.val \in {"wide16", "stride8"}

\* a table has just been built with the algorithm both families take, and
\* the constructor of its family refuses the other family's algorithm
C13_FreshTable ==
    /\ Open(tab)
    /\ tab.trie.stored = <<>>
    /\ algorithm(tab).ret.val = "stride8"
    /\ init(tab.family, IF tab.family = "IPv4" THEN "wide16" ELSE "dir24").ret.exc
          = "ValueError"

\* the prefix arguments that denote a pair table t does not store
Absent(t) ==
    {prefix \in GoodPrefixes(t) :
        <<AsNetwork(t, prefix).net, AsNetwork(t, prefix).len>>
            \notin DOMAIN t.trie.stored}

\* C14: delete of a pair that is not stored fails with LpmDeleteError; the
\* failed call changes nothing (stored prefixes, num_prefixes, every lookup
\* result) and the table stays open.
C14_DeleteOfAbsentFails ==
    Open(tab) =>
        \A prefix \in Absent(tab) :
            LET r == delete(tab, prefix)
            IN  /\ r.ret.exc = "LpmDeleteError"
                /\ Open(r.tab)
                /\ Untouched(tab, r)

\* delete fails for a pair that a shorter stored prefix covers
C14_CoveredButAbsent ==
    /\ Open(tab)
    /\ \E prefix \in Absent(tab), p \in DOMAIN tab.trie.stored :
          LET n == AsNetwork(tab, prefix)
          IN  /\ p[2] < n.len
              /\ Mask(n.net, p[2], tab.trie.w) = p[1]
              /\ delete(tab, prefix).ret.exc = "LpmDeleteError"

\* the insert of prefix into t has to allocate a node or an extension block
NeedsAllocation(t, prefix, next_hop) ==
    DOMAIN insert(t, prefix, next_hop, TRUE).tab.trie.nodes # DOMAIN t.trie.nodes

----------------------------------------------------------------------------
(* Prefix arguments                                                        *)

\* the CIDR texts among the prefix arguments whose length fits the family
FittingTexts(t) ==
    {prefix \in PrefixInputs(t.family) :
        prefix.kind = "str" /\ prefix.len <= AddrBits(t.family)}

\* the text has bits set beyond its length
HostBitsSet(t, prefix) ==
    Mask(prefix.addr, prefix.len, AddrBits(t.family)) # prefix.addr

\* the same text with the bits beyond its length cleared
Cleared(t, prefix) ==
    [prefix EXCEPT !.addr = Mask(prefix.addr, prefix.len, AddrBits(t.family))]

InvalidPrefix(t, r) ==
    /\ r.ret.exc = "LpmInvalidPrefixError"
    /\ r.ret.engine = "none"
    /\ r.tab = t

\* insert (with every next-hop in range) and delete of prefix both satisfy P
InsertAndDelete(t, prefix, P(_)) ==
    /\ P(delete(t, prefix))
    /\ \A next_hop \in NextHopInputs : P(insert(t, prefix, next_hop, TRUE))

\* the texts that do not parse or whose length exceeds the family's
Malformed(t) ==
    {prefix \in PrefixInputs(t.family) :
        \/ prefix.kind = "badstr"
        \/ prefix.kind = "str" /\ prefix.len > AddrBits(t.family)}

----------------------------------------------------------------------------
(* Prefix count                                                            *)

\* num_prefixes as the caller reads it from an open table
Count(t) == num_prefixes(t, 0).ret.val

\* the pair the prefix argument denotes is stored in t
IsStored(t, prefix) ==
    /\ AsNetwork(t, prefix).ok
    /\ <<AsNetwork(t, prefix).net, AsNetwork(t, prefix).len>> \in DOMAIN t.trie.stored

\* C18: on an open table num_prefixes is the number of distinct (network,
\* length) pairs stored: 0 after construction, one more after a successful
\* insert of a pair not yet stored, one less after a successful delete, and
\* unchanged by re-inserts, lookups and failed operations.
C18_NumPrefixesCountsPairs ==
    /\ \A family \in Families :
          \A algo_str \in ValidAlgorithms(family) :
              Count(init(family, algo_str).tab) = 0
    /\ Open(tab) =>
          /\ Count(tab) = Cardinality(DOMAIN tab.trie.stored)
          /\ \A in \in InsertInputs(tab.family) :
                LET r == insert(tab, in[1], in[2], in[3])
                IN  Count(r.tab) =
                        IF r.ret.exc = "none" /\ ~IsStored(tab, in[1])
                        THEN Count(tab) + 1
                        ELSE Count(tab)
          /\ \A prefix \in PrefixInputs(tab.family) :
                LET r == delete(tab, prefix)
                IN  Count(r.tab) =
                        IF r.ret.exc = "none" THEN Count(tab) - 1 ELSE Count(tab)
          /\ \A addr \in AddrInputs(tab.family) :
                Count(lookup(tab, addr).tab) = Count(tab)
          /\ \A addrs \in BatchInputs(tab.family) :
                Count(lookup_batch(tab, addrs).tab) = Count(tab)

\* two pairs are stored and counted, a re-insert of one keeps the count and
\* a delete of one lowers it
C18_TwoCounted ==
    /\ Open(tab)
    /\ Count(tab) = 2
    /\ \E prefix \in PrefixInputs(tab.family) :
          /\ IsStored(tab, prefix)
          /\ Count(insert(tab, prefix, 0, TRUE).tab) = 2
          /\ Count(delete(tab, prefix).tab) = 1

----------------------------------------------------------------------------
(* Context manager                                                         *)

\* C17: a table used as a context manager is open inside the with-block and
\* closed when the block is left, on normal exit and when the block raises;
\* __exit__ returns False, so the exception raised in the block propagates
\* after the table has been closed.
C17_WithBlockCloses ==
    /\ blk.phase = "inside" => Open(tab)
    /\ blk.phase = "left" =>
          /\ Shut(tab)
          /\ tab.releases = 1
          /\ __exit__(tab).ret.val = FALSE
          /\ blk.propagated <=> blk.raised

\* a block that stored a prefix and then raised has been left: the table is
\* closed and the exception went on to the caller
C17_LeftByException ==
    /\ blk.phase = "left"
    /\ blk.raised /\ blk.propagated
    /\ Shut(tab)

----------------------------------------------------------------------------
\* the calls that have returned or raised, each with the table its thread
\* found when it took the lock
Finished == {i \in Threads : thr.pc[i] = "done"}

\* the order of the lock acquisitions is a serial order of the calls: while
\* a thread holds the lock the table is the one it found, and when its call
\* ends the outcome and the table are those of the call made on that table
SerialOrder ==
    /\ \A i \in Threads :
          thr.pc[i] \in {"locked", "checked"} => tab = thr.seen[i]
    /\ \A i \in Finished :
          /\ thr.out[i] = Perform(thr.seen[i], thr.op[i]).ret
          /\ tab = Perform(thr.seen[i], thr.op[i]).tab

\* every lookup that returned gave the longest-prefix match of the prefix
\* set of the table at its place in the order
LookupsMatch(i) ==
    /\ (thr.op[i].name = "lookup" /\ thr.out[i].exc = "none") =>
          thr.out[i].val = Match(thr.seen[i], thr.op[i].addr.a)
    /\ (thr.op[i].name = "lookup_batch" /\ thr.out[i].exc = "none") =>
          \A k \in DOMAIN thr.op[i].addrs :
              thr.out[i].vals[k] = Match(thr.seen[i], thr.op[i].addrs[k].a)

\* no call reaches the engine once close has released it
EngineNotReachedAfterClose ==
    /\ ~thr.hazard
    /\ \A i \in Finished :
          thr.seen[i].closed => thr.out[i].engine = "none"

\* C19: with every call made under the one lock of the table, every
\* interleaving of the threads is a serial order of the calls, every lookup
\* returns the longest-prefix match of the prefix set at its place in that
\* order, and no call reaches the engine after close has released it.
C19_LockSerializes ==
    /\ SerialOrder
    /\ EngineNotReachedAfterClose
    /\ \A i \in Finished : LookupsMatch(i)

\* What is left of C19 once the reserved next-hop is kept out of the table:
\* the calls are serialised, none reaches a released engine, and a lookup
\* made on a table with no stored next-hop equal to INVALID_NEXT_HOP returns
\* the longest-prefix match.
LockSerializesBelowSentinel ==
    /\ SerialOrder
    /\ EngineNotReachedAfterClose
    /\ \A i \in Finished : SentinelFree(thr.seen[i]) => LookupsMatch(i)

\* a thread's lookup found the table another thread's call had changed, and
\* a thread's lookup found the table closed
LockedLookupReached ==
    \E i \in Finished :
        /\ thr.op[i].name = "lookup"
        /\ thr.out[i].exc = "none"
        /\ thr.out[i].val \in LegalNextHops
        /\ Cardinality(DOMAIN thr.seen[i].trie.stored) = 2

LockedClosedReached ==
    \E i \in Finished :
        /\ thr.op[i].name = "lookup"
        /\ thr.out[i].exc = "LpmClosedError"
        /\ tab.trie.released

----------------------------------------------------------------------------
\* C24: lookup_batch with an empty input on an open table returns an empty
\* list, makes no call to the engine and leaves the table unchanged.
C24_EmptyBatch ==
    Open(tab) =>
        LET r == lookup_batch(tab, <<>>)
        IN  /\ r.ret.exc = "none"
            /\ r.ret.vals = <<>>
            /\ r.ret.engine = "none"
            /\ Untouched(tab, r)

\* a table holding a prefix answers the empty batch without the engine and a
\* batch of one address with it
C24_EmptyAndOneAddress ==
    /\ Open(tab)
    /\ tab.trie.stored # <<>>
    /\ lookup_batch(tab, <<>>).ret.engine = "none"
    /\ lookup_batch(tab, <<ObjAddr(AddrA(tab.family))>>).ret.engine = "lookup_batch"

\* C26: the closed check comes before every other check: on a closed table
\* insert with an out-of-range next_hop or an unparsable prefix, delete with
\* an unparsable prefix, lookup with any address and lookup_batch with an
\* empty list all raise LpmClosedError; none raises ValueError or
\* LpmInvalidPrefixError or returns an empty result.
C26_ClosedCheckFirst ==
    Shut(tab) =>
        /\ \A prefix \in PrefixInputs(tab.family) :
              /\ \A next_hop \in OutOfRange \cup NextHopInputs :
                    insert(tab, prefix, next_hop, TRUE).ret.exc = "LpmClosedError"
              /\ delete(tab, prefix).ret.exc = "LpmClosedError"
        /\ \A addr \in AddrInputs(tab.family) :
              lookup(tab, addr).ret.exc = "LpmClosedError"
        /\ \A addrs \in BatchInputs(tab.family) :
              lookup_batch(tab, addrs).ret.exc = "LpmClosedError"

\* a closed table is handed arguments that are wrong in themselves
C26_ClosedAndBadArguments ==
    /\ Shut(tab)
    /\ \E prefix \in PrefixInputs(tab.family), next_hop \in OutOfRange :
          /\ prefix.kind = "badstr"
          /\ insert(tab, prefix, next_hop, TRUE).ret.exc = "LpmClosedError"
          /\ delete(tab, prefix).ret.exc = "LpmClosedError"
    /\ lookup_batch(tab, <<>>).ret.exc = "LpmClosedError"

\* C27: lookup, lookup_batch and the reads closed, algorithm, num_prefixes,
\* num_nodes and num_wide_nodes leave the table unchanged: the stored
\* prefixes, the node arrays and the closed flag, and with them the counts
\* and every later lookup, are as if the read had not happened.
C27_ReadsLeaveTable ==
    tab.exists =>
        /\ \A addr \in AddrInputs(tab.family) : Untouched(tab, lookup(tab, addr))
        /\ \A addrs \in BatchInputs(tab.family) :
              Untouched(tab, lookup_batch(tab, addrs))
        /\ Untouched(tab, closed(tab))
        /\ Untouched(tab, algorithm(tab))
        /\ \A stale \in 0 .. MaxPrefixes :
              /\ Untouched(tab, num_prefixes(tab, stale))
              /\ Untouched(tab, num_nodes(tab, stale))
              /\ tab.family = "IPv6" => Untouched(tab, num_wide_nodes(tab, stale))

\* a table with two prefixes is read: one lookup hits, another misses
C27_HitAndMissRead ==
    /\ Open(tab)
    /\ Cardinality(DOMAIN tab.trie.stored) = 2
    /\ \E a, b \in ProbeAddrs(tab.family) :
          /\ lookup(tab, ObjAddr(a)).ret.val \in LegalNextHops
          /\ lookup(tab, ObjAddr(b)).ret.val = None
          /\ Untouched(tab, lookup(tab, ObjAddr(a)))

----------------------------------------------------------------------------
\* what the engine hands back for address a
EngineResult(t, a) == trie_lookup(t.trie, from_bytes_big(packed(a, t.trie.w)))

\* C29: a next-hop of 0 is an ordinary stored value: lookup of an address
\* whose longest covering prefix was inserted with next-hop 0 returns 0,
\* which is not the miss result; and the wrapper turns an engine result into
\* None if and only if it equals 0xFFFFFFFF, in lookup and in every position
\* of lookup_batch.
C29_ZeroIsOrdinary ==
    Open(tab) =>
        \A a \in Addresses(tab.family) :
            LET found  == Found(tab, a)
                result == EngineResult(tab, a)
                vals   == lookup_batch(tab, <<ObjAddr(a), ObjAddr(a)>>).ret.vals
            IN  /\ (Covering(tab, a) # {} /\ tab.trie.stored[Best(tab, a)] = 0) =>
                      (found = 0 /\ found # None)
                /\ (found = None) <=> (result = INVALID_NEXT_HOP)
                /\ (found # None) => (found = result)
                /\ \A k \in 1 .. 2 :
                      /\ (vals[k] = None) <=> (result = INVALID_NEXT_HOP)
                      /\ (vals[k] # None) => (vals[k] = result)

\* a prefix stored with next-hop 0 answers 0 for the addresses it is the
\* longest match of while another address is missed
C29_ZeroFoundBesideMiss ==
    /\ Open(tab)
    /\ \E a, b \in Addresses(tab.family) :
          /\ Covering(tab, a) # {}
          /\ tab.trie.stored[Best(tab, a)] = 0
          /\ Found(tab, a) = 0
          /\ Covering(tab, b) = {}
          /\ lookup_batch(tab, <<ObjAddr(a), ObjAddr(b)>>).ret.vals = <<0, None>>

\* the addresses prefix <<net, len>> covers
Covers(net, len, a, w) == Mask(a, len, w) = net

\* the addresses whose lookup result a change of prefix <<net, len>> may not
\* touch: those it does not cover, and those a stored prefix more specific
\* than it covers
OutOfReach(t, net, len) ==
    {a \in Addresses(t.family) :
        \/ ~Covers(net, len, a, t.trie.w)
        \/ \E q \in Covering(t, a) : q[2] > len}

\* C30: insert and delete of a prefix P change the lookup result only for
\* addresses covered by P: for every address not covered by P, and for every
\* address covered by a stored prefix more specific than P, the lookup
\* result after the operation equals the result before it.
C30_ChangeStaysUnderPrefix ==
    Open(tab) =>
        LET before == [a \in Addresses(tab.family) |-> Found(tab, a)]
        IN  \A prefix \in GoodPrefixes(tab) :
               LET n   == AsNetwork(tab, prefix)
                   far == OutOfReach(tab, n.net, n.len)
                   d   == delete(tab, prefix).tab
               IN  /\ \A a \in far : Found(d, a) = before[a]
                   /\ \A next_hop \in EdgeNextHops :
                         LET i == insert(tab, prefix, next_hop, TRUE).tab
                         IN  \A a \in far : Found(i, a) = before[a]

\* a table holds a prefix and a more specific one under it; inserting or
\* deleting the covering prefix changes the result of an address it alone
\* covers and not that of an address under the more specific one
C30_CoveringPrefixChanged ==
    /\ Open(tab)
    /\ \E prefix \in GoodPrefixes(tab) :
          LET n == AsNetwork(tab, prefix)
              d == delete(tab, prefix).tab
          IN  /\ <<n.net, n.len>> \in DOMAIN tab.trie.stored
              /\ \E a \in OutOfReach(tab, n.net, n.len) :
                    /\ Covers(n.net, n.len, a, tab.trie.w)
                    /\ Found(d, a) = Found(tab, a)
              /\ \E b \in Addresses(tab.family) : Found(d, b) # Found(tab, b)

----------------------------------------------------------------------------
(* Slots of the engine's arrays                                            *)

\* the slots of engine e: those of the first-level array and those of every
\* allocated node array
Slots(e) ==
    {<<"top", <<0, 0>>, i>> : i \in DOMAIN e.top}
    \cup UNION {{<<"node", key, j>> : j \in DOMAIN e.nodes[key]} :
                  key \in DOMAIN e.nodes}

SlotAt(e, s) == IF s[1] = "top" THEN e.top[s[3]] ELSE e.nodes[s[2]][s[3]]

\* the last stride a slot's array resolves
SlotLevel(e, s) == IF s[1] = "top" THEN TopLevels(e.algo, e.w) - 1 ELSE s[2][1]

\* the first address that is looked up through slot s
SlotBase(e, s) ==
    IF s[1] = "top"
    THEN s[3] * 2^(e.w - TopBits(e.algo, e.w))
    ELSE (s[2][2] * 2^StrideBits + s[3]) * 2^(e.w - (s[2][1] + 1) * StrideBits)

\* the last stride a prefix of length len reaches into
EndLevel(e, len) ==
    IF len <= TopBits(e.algo, e.w)
    THEN TopLevels(e.algo, e.w) - 1
    ELSE (len - 1) \div StrideBits

\* prefix <<net, len>> fans out over slot s: it covers the slot's addresses
\* and ends in the slot's array; in DIR-24-8 a prefix of the direct table
\* also fans out over the extension blocks under the direct slots it covers
FansOver(e, net, len, s) ==
    /\ Mask(SlotBase(e, s), len, e.w) = net
    /\ \/ EndLevel(e, len) = SlotLevel(e, s)
       \/ e.algo = "dir24" /\ len <= TopBits(e.algo, e.w) /\ s[1] = "node"

\* the stored prefixes that fan out over slot s
Owners(e, s) == {p \in DOMAIN e.stored : FansOver(e, p[1], p[2], s)}

\* slot s holds the value and the tag of the longest stored prefix that fans
\* out over it, and is empty if there is none
HoldsLongest(e, s) ==
    IF Owners(e, s) = {}
    THEN SlotAt(e, s).tag = NoTag /\ SlotAt(e, s).nh = INVALID_NEXT_HOP
    ELSE \E p \in Owners(e, s) :
            /\ \A q \in Owners(e, s) : q[2] <= p[2]
            /\ SlotAt(e, s).tag = p[2]
            /\ SlotAt(e, s).nh = e.stored[p]

\* what slot s of engine `after` held in engine `before`: a slot of an array
\* allocated in between started empty, and in DIR-24-8 from the leaf of the
\* direct slot its block hangs under
HeldBefore(before, s) ==
    IF s \in Slots(before)
    THEN SlotAt(before, s)
    ELSE IF before.algo = "dir24"
    THEN [nh |-> before.top[s[2][2]].nh, tag |-> before.top[s[2][2]].tag,
          child |-> FALSE]
    ELSE [nh |-> INVALID_NEXT_HOP, tag |-> NoTag, child |-> FALSE]

\* C21: fan-out on insert is longest-wins: inserting a prefix of length L
\* writes its next-hop and the tag L into every covered slot whose tag is
\* absent or not longer than L, and leaves the leaf value and tag of every
\* other slot, and every existing child reference, unchanged; so in every
\* reachable state each slot holds the leaf value and tag of the longest
\* stored prefix that fans out over it.
C21_FanOutLongestWins ==
    Open(tab) =>
        /\ \A s \in Slots(tab.trie) : HoldsLongest(tab.trie, s)
        /\ \A prefix \in GoodPrefixes(tab), next_hop \in EdgeNextHops :
              LET n     == AsNetwork(tab, prefix)
                  after == insert(tab, prefix, next_hop, TRUE).tab.trie
              IN  /\ Slots(tab.trie) \subseteq Slots(after)
                  /\ \A s \in Slots(after) :
                        LET old == HeldBefore(tab.trie, s)
                            new == SlotAt(after, s)
                        IN  /\ old.child => new.child
                            /\ IF FansOver(after, n.net, n.len, s) /\ old.tag <= n.len
                               THEN new.nh = next_hop /\ new.tag = n.len
                               ELSE new.nh = old.nh /\ new.tag = old.tag

\* a slot under a stored prefix and a more specific stored one holds the
\* more specific one, and a slot beside it holds the covering one
C21_OverlapInOneArray ==
    /\ Open(tab)
    /\ \E s, u \in Slots(tab.trie) :
          /\ s[1] = u[1] /\ s[2] = u[2]
          /\ Cardinality(Owners(tab.trie, s)) = 2
          /\ Cardinality(Owners(tab.trie, u)) = 1
          /\ SlotAt(tab.trie, s).tag > SlotAt(tab.trie, u).tag

\* the prefix arguments that denote a stored pair of table t
StoredArgs(t) ==
    {prefix \in GoodPrefixes(t) :
        <<AsNetwork(t, prefix).net, AsNetwork(t, prefix).len>> \in DOMAIN t.trie.stored}

\* C22: delete clears, among the slots the deleted prefix fans out over,
\* only those whose tag equals the deleted prefix's length; each cleared
\* slot then holds the value and tag of the longest remaining stored prefix
\* that fans out over it, or is empty if there is none; slots tagged with a
\* more specific prefix, and slots the prefix does not fan out over, are
\* left untouched.
C22_DeleteClearsOwnSlots ==
    Open(tab) =>
        \A prefix \in StoredArgs(tab) :
            LET n     == AsNetwork(tab, prefix)
                after == delete(tab, prefix).tab.trie
            IN  /\ Slots(after) \subseteq Slots(tab.trie)
                /\ \A s \in Slots(after) :
                      LET old == SlotAt(tab.trie, s)
                          new == SlotAt(after, s)
                      IN  IF FansOver(tab.trie, n.net, n.len, s) /\ old.tag = n.len
                          THEN HoldsLongest(after, s)
                          ELSE new.nh = old.nh /\ new.tag = old.tag

\* a stored prefix and a more specific stored one share an array: deleting
\* the covering one empties its own slots and leaves the slot of the more
\* specific one, and deleting the more specific one lets its slot fall back
\* to the covering one
C22_ClearedAndRestored ==
    /\ Open(tab)
    /\ \E outer, inner \in StoredArgs(tab) :
          LET o == AsNetwork(tab, outer)
              i == AsNetwork(tab, inner)
              lessOuter == delete(tab, outer).tab.trie
              lessInner == delete(tab, inner).tab.trie
          IN  /\ o.len < i.len
              /\ \E s, u \in Slots(tab.trie) \cap Slots(lessOuter) \cap Slots(lessInner) :
                    /\ FansOver(tab.trie, o.net, o.len, s)
                    /\ FansOver(tab.trie, i.net, i.len, s)
                    /\ SlotAt(lessOuter, s) = SlotAt(tab.trie, s)
                    /\ SlotAt(lessInner, s).tag = o.len
                    /\ FansOver(tab.trie, o.net, o.len, u)
                    /\ SlotAt(tab.trie, u).tag = o.len
                    /\ SlotAt(lessOuter, u).tag = NoTag

----------------------------------------------------------------------------
(* DIR-24-8: direct table and extension blocks                             *)

\* the stored prefixes longer than the direct table resolves that fall
\* under direct slot i
LongUnder(e, i) ==
    {p \in DOMAIN e.stored :
        /\ p[2] > TopBits(e.algo, e.w)
        /\ p[1] \div 2^(e.w - TopBits(e.algo, e.w)) = i}

\* the next-hop of the longest stored prefix of the direct table that covers
\* direct slot i, the empty value if there is none
DirectValue(e, i) ==
    LET short == {p \in DOMAIN e.stored :
                    /\ p[2] <= TopBits(e.algo, e.w)
                    /\ Mask(i * 2^(e.w - TopBits(e.algo, e.w)), p[2], e.w) = p[1]}
    IN  IF short = {}
        THEN INVALID_NEXT_HOP
        ELSE e.stored[CHOOSE p \in short : \A q \in short : q[2] <= p[2]]

\* the extension block of direct slot i, and the address of its slot j
BlockKey(e, i) == <<TopLevels(e.algo, e.w), i>>
BlockAddr(e, i, j) == i * 2^(e.w - TopBits(e.algo, e.w)) + j

\* C23: in the DIR-24-8 engine a direct slot points to an extension block
\* exactly while at least one stored prefix longer than the direct table
\* resolves falls under it; a slot without a block is a direct entry with
\* the next-hop of the longest stored direct-table prefix covering it, or
\* empty; while the block exists, the block slots not covered by any of the
\* longer prefixes return that same value.
C23_ExtensionBlockLifetime ==
    (Open(tab) /\ tab.trie.algo = "dir24") =>
        LET e == tab.trie
        IN  /\ DOMAIN e.nodes = {BlockKey(e, i) : i \in {k \in DOMAIN e.top : e.top[k].child}}
            /\ \A i \in DOMAIN e.top :
                  /\ e.top[i].child <=> (LongUnder(e, i) # {})
                  /\ ~e.top[i].child =>
                        /\ e.top[i].nh = DirectValue(e, i)
                        /\ \A j \in 0 .. (2^(e.w - TopBits(e.algo, e.w)) - 1) :
                              trie_lookup(e, BlockAddr(e, i, j)) = DirectValue(e, i)
                  /\ e.top[i].child =>
                        \A j \in DOMAIN e.nodes[BlockKey(e, i)] :
                            (\A p \in LongUnder(e, i) :
                                Mask(BlockAddr(e, i, j), p[2], e.w) # p[1]) =>
                                  /\ e.nodes[BlockKey(e, i)][j].nh = DirectValue(e, i)
                                  /\ trie_lookup(e, BlockAddr(e, i, j)) = DirectValue(e, i)

\* a block hangs under a direct slot that a stored direct-table prefix
\* covers: a block slot beside the longer prefix returns the direct-table
\* value, and deleting the longer prefix, the last under the slot, takes the
\* block away and leaves the direct entry
C23_BlockOverDirectValue ==
    /\ Open(tab)
    /\ tab.trie.algo = "dir24"
    /\ \E i \in DOMAIN tab.trie.top :
          /\ tab.trie.top[i].child
          /\ DirectValue(tab.trie, i) \in LegalNextHops
          /\ \E j \in DOMAIN tab.trie.nodes[BlockKey(tab.trie, i)] :
                tab.trie.nodes[BlockKey(tab.trie, i)][j].tag > TopBits("dir24", tab.trie.w)
          /\ \E j \in DOMAIN tab.trie.nodes[BlockKey(tab.trie, i)] :
                trie_lookup(tab.trie, BlockAddr(tab.trie, i, j)) = DirectValue(tab.trie, i)
          /\ \E prefix \in StoredArgs(tab) :
                LET after == delete(tab, prefix).tab.trie
                IN  /\ ~after.top[i].child
                    /\ after.nodes = <<>>
                    /\ after.top[i].nh = DirectValue(tab.trie, i)

----------------------------------------------------------------------------
(* Ownership of node arrays                                                *)

\* the node arrays the child references of array key lead to
ChildKeys(e, key) ==
    IF key \in DOMAIN e.nodes
    THEN {<<key[1] + 1, key[2] * 2^StrideBits + j>> :
            j \in {k \in DOMAIN e.nodes[key] : e.nodes[key][k].child}}
    ELSE {}

\* the node arrays reachable from those of `frontier`, these included
RECURSIVE ReachableFrom(_, _)
ReachableFrom(e, frontier) ==
    IF frontier = {}
    THEN {}
    ELSE frontier \cup ReachableFrom(e, UNION {ChildKeys(e, key) : key \in frontier})

\* the node arrays reachable from the root of engine e
Reachable(e) ==
    ReachableFrom(e, {<<TopLevels(e.algo, e.w), i>> :
                        i \in {k \in DOMAIN e.top : e.top[k].child}})

\* nothing of engine e is allocated
NothingAllocated(e) == e.released /\ e.top = <<>> /\ e.nodes = <<>>

----------------------------------------------------------------------------
\* C28: lookup results depend only on the stored pairs, not on the order of
\* the operations that produced them: two tables of the same algorithm that
\* hold the same (network, length, next-hop) triples through different
\* orders of inserts and deletes return the same result for every address
\* and the same num_prefixes.
C28_OrderIndependent ==
    (tab.exists /\ peer.exists /\ tab.trie.stored = peer.trie.stored) =>
        /\ Count(tab) = Count(peer)
        /\ \A a \in Addresses(tab.family) : Found(tab, a) = Found(peer, a)

\* the two tables hold the same covering and more specific prefix, with
\* different next-hops, and differ inside: tab has been through inserts or
\* deletes that peer has not
C28_SamePairsOtherHistory ==
    /\ tab.exists /\ peer.exists
    /\ tab.trie.stored = peer.trie.stored
    /\ tab.trie # peer.trie
    /\ \E p, q \in DOMAIN tab.trie.stored :
          /\ p[2] < q[2]
          /\ Mask(q[1], p[2], tab.trie.w) = p[1]
          /\ tab.trie.stored[p] # tab.trie.stored[q]

====
